---------------------------- MODULE Spec2Model ----------------------------
(***************************************************************************)
(* pdftables-ts: table detection from positioned text fragments            *)
(* (src/src/table-detector.ts, src/src/geometry.ts), the cross-page merge  *)
(* and the mapping of tables to header-keyed objects (src/src/index.ts).   *)
(*                                                                         *)
(* Conventions of the model                                                *)
(*  - a JavaScript string is a sequence of one-character strings, so that  *)
(*    trim(), split(), join() and the regular expressions of the source    *)
(*    are computed character by character;                                 *)
(*  - a JavaScript number that is not known to be an integer is an exact   *)
(*    rational [n |-> numerator, d |-> denominator > 0] in lowest terms;   *)
(*  - array positions are 1-based in TLA+, the rowIndex / columnIndex      *)
(*    fields keep the 0-based values the source stores;                    *)
(*  - null is NULL and undefined is UNDEFINED.                           *)
(***************************************************************************)
EXTENDS Integers, Sequences, FiniteSets, TLC

NULL == [null |-> TRUE]
UNDEFINED == [kind |-> "undefined"]
INFINITY == [infinity |-> TRUE]

(***************************************************************************)
(* Numbers                                                                 *)
(***************************************************************************)
Abs(i) == IF i < 0 THEN -i ELSE i
Min(a, b) == IF a <= b THEN a ELSE b
Max(a, b) == IF a >= b THEN a ELSE b

RECURSIVE GCD(_, _)
GCD(a, b) == IF b = 0 THEN a ELSE GCD(b, a % b)

Rat(n, d) ==
  LET s == IF d < 0 THEN -1 ELSE 1
      g == GCD(Abs(n), Abs(d))
  IN  [n |-> (s * n) \div g, d |-> (s * d) \div g]
R(i) == [n |-> i, d |-> 1]
RAdd(a, b) == Rat(a.n * b.d + b.n * a.d, a.d * b.d)
RSub(a, b) == Rat(a.n * b.d - b.n * a.d, a.d * b.d)
RMul(a, b) == Rat(a.n * b.n, a.d * b.d)
RDivInt(a, k) == Rat(a.n, a.d * k)
RAbs(a) == [n |-> Abs(a.n), d |-> a.d]
RLt(a, b) == a.n * b.d < b.n * a.d
RLe(a, b) == a.n * b.d <= b.n * a.d
RMax(a, b) == IF RLt(a, b) THEN b ELSE a

RECURSIVE RSum(_)
RSum(s) == IF s = <<>> THEN R(0) ELSE RAdd(s[1], RSum(Tail(s)))
\* values.reduce((acc, n) => acc + n, 0) / values.length
RMean(s) == RDivInt(RSum(s), Len(s))

\* [...values].sort((a, b) => a - b)
RECURSIVE RInsertAsc(_, _)
RInsertAsc(v, s) ==
  IF s = <<>> THEN <<v>>
  ELSE IF RLt(v, s[1]) THEN <<v>> \o s
  ELSE <<s[1]>> \o RInsertAsc(v, Tail(s))
RECURSIVE RSortAsc(_)
RSortAsc(s) ==
  IF s = <<>> THEN <<>> ELSE RInsertAsc(s[Len(s)], RSortAsc(SubSeq(s, 1, Len(s) - 1)))
\* bands.sort((a, b) => b - a)
RECURSIVE RInsertDesc(_, _)
RInsertDesc(v, s) ==
  IF s = <<>> THEN <<v>>
  ELSE IF RLt(s[1], v) THEN <<v>> \o s
  ELSE <<s[1]>> \o RInsertDesc(v, Tail(s))
RECURSIVE RSortDesc(_)
RSortDesc(s) ==
  IF s = <<>> THEN <<>> ELSE RInsertDesc(s[Len(s)], RSortDesc(SubSeq(s, 1, Len(s) - 1)))

SeqMinInt(s) == CHOOSE m \in {s[i] : i \in DOMAIN s} : \A i \in DOMAIN s : m <= s[i]
SeqMaxInt(s) == CHOOSE m \in {s[i] : i \in DOMAIN s} : \A i \in DOMAIN s : m >= s[i]

\* the elements of a finite set of integers in ascending order
RECURSIVE SortedSeq(_)
SortedSeq(S) ==
  IF S = {} THEN <<>>
  ELSE LET m == CHOOSE x \in S : \A y \in S : x <= y
       IN  <<m>> \o SortedSeq(S \ {m})
\* Array.prototype.filter, on the positions 1..n of an array
SelectIdx(n, P(_)) == SortedSeq({i \in 1..n : P(i)})
\* Array.prototype.map, on the positions 1..n of an array
MapIdx(n, F(_)) == [i \in 1..n |-> F(i)]

(***************************************************************************)
(* Strings                                                                 *)
(***************************************************************************)
Digits == {"0", "1", "2", "3", "4", "5", "6", "7", "8", "9"}
Whitespace == {" ", "\n"}
IsDigit(c) == c \in Digits
AllDigits(s) == \A i \in DOMAIN s : IsDigit(s[i])

RECURSIVE TrimStart(_)
TrimStart(s) ==
  IF s # <<>> /\ s[1] \in Whitespace THEN TrimStart(Tail(s)) ELSE s
RECURSIVE TrimEnd(_)
TrimEnd(s) ==
  IF s # <<>> /\ s[Len(s)] \in Whitespace THEN TrimEnd(SubSeq(s, 1, Len(s) - 1)) ELSE s
\* String.prototype.trim
Trim(s) == TrimEnd(TrimStart(s))
\* value.replace(/\s+/g, "")
RECURSIVE StripWhitespace(_)
StripWhitespace(s) ==
  IF s = <<>> THEN <<>>
  ELSE IF s[1] \in Whitespace THEN StripWhitespace(Tail(s))
  ELSE <<s[1]>> \o StripWhitespace(Tail(s))
\* value.replace(/\s+/g, " ")
RECURSIVE CollapseWhitespace(_)
CollapseWhitespace(s) ==
  IF s = <<>> THEN <<>>
  ELSE IF s[1] \in Whitespace
       THEN <<" ">> \o CollapseWhitespace(TrimStart(s))
       ELSE <<s[1]>> \o CollapseWhitespace(Tail(s))
\* parts.join(sep)
RECURSIVE Join(_, _)
Join(parts, sep) ==
  IF parts = <<>> THEN <<>>
  ELSE IF Len(parts) = 1 THEN parts[1]
  ELSE parts[1] \o sep \o Join(Tail(parts), sep)
\* the position of the first c in s, 0 when there is none
RECURSIVE IndexOf(_, _)
IndexOf(s, c) ==
  IF s = <<>> THEN 0
  ELSE IF s[1] = c THEN 1
  ELSE LET r == IndexOf(Tail(s), c) IN IF r = 0 THEN 0 ELSE r + 1
\* String(n) for a positive integer n
RECURSIVE NatToStr(_)
NatToStr(n) ==
  LET digit == <<"0", "1", "2", "3", "4", "5", "6", "7", "8", "9">>[(n % 10) + 1]
  IN  IF n < 10 THEN <<digit>> ELSE Append(NatToStr(n \div 10), digit)

(***************************************************************************)
(* src/src/geometry.ts                                                     *)
(***************************************************************************)
\* glyph.bbox.x + glyph.bbox.width / 2 and glyph.bbox.y + glyph.bbox.height / 2
CenterX(g) == Rat(2 * g.bbox.x + g.bbox.width, 2)
CenterY(g) == Rat(2 * g.bbox.y + g.bbox.height, 2)

\* a faulty variant of clusterScan: the distance is taken to the running mean
\* of the band
RECURSIVE clusterScanByMean(_, _, _, _, _, _)
clusterScanByMean(sorted, i, tolerance, currentBandStart, currentBandValues, bands) ==
  IF i > Len(sorted) THEN Append(bands, RMean(currentBandValues))
  ELSE LET v == sorted[i] IN
       IF RLe(RAbs(RSub(v, RMean(currentBandValues))), tolerance)
       THEN clusterScanByMean(sorted, i + 1, tolerance, currentBandStart,
                              Append(currentBandValues, v), bands)
       ELSE clusterScanByMean(sorted, i + 1, tolerance, v, <<v>>,
                              Append(bands, RMean(currentBandValues)))

\* the loop of clusterPositions from position i of the sorted array on
RECURSIVE clusterScan(_, _, _, _, _, _)
clusterScan(sorted, i, tolerance, currentBandStart, currentBandValues, bands) ==
  IF i > Len(sorted) THEN Append(bands, RMean(currentBandValues))
  ELSE LET v == sorted[i] IN
       IF RLe(RAbs(RSub(v, currentBandStart)), tolerance)
       THEN clusterScan(sorted, i + 1, tolerance, currentBandStart,
                        Append(currentBandValues, v), bands)
       ELSE clusterScan(sorted, i + 1, tolerance, v, <<v>>,
                        Append(bands, RMean(currentBandValues)))

\* a faulty variant of clusterMembers: the distance is taken to the running
\* mean of the band
RECURSIVE clusterMembersByMean(_, _, _, _, _, _)
clusterMembersByMean(sorted, i, tolerance, currentBandStart, currentBandValues, closed) ==
  IF i > Len(sorted) THEN Append(closed, currentBandValues)
  ELSE LET v == sorted[i] IN
       IF RLe(RAbs(RSub(v, RMean(currentBandValues))), tolerance)
       THEN clusterMembersByMean(sorted, i + 1, tolerance, currentBandStart,
                                 Append(currentBandValues, v), closed)
       ELSE clusterMembersByMean(sorted, i + 1, tolerance, v, <<v>>,
                                 Append(closed, currentBandValues))

\* the loop of clusterPositions from position i of the sorted array on: the
\* values of currentBandValues each time a band is closed
RECURSIVE clusterMembers(_, _, _, _, _, _)
clusterMembers(sorted, i, tolerance, currentBandStart, currentBandValues, closed) ==
  IF i > Len(sorted) THEN Append(closed, currentBandValues)
  ELSE LET v == sorted[i] IN
       IF RLe(RAbs(RSub(v, currentBandStart)), tolerance)
       THEN clusterMembers(sorted, i + 1, tolerance, currentBandStart,
                           Append(currentBandValues, v), closed)
       ELSE clusterMembers(sorted, i + 1, tolerance, v, <<v>>,
                           Append(closed, currentBandValues))

\* the members of the bands of clusterPositions, band by band
bandMembers(positions, tolerance) ==
  IF positions = <<>> THEN <<>>
  ELSE LET sorted == RSortAsc(positions)
       IN  clusterMembers(sorted, 2, tolerance, sorted[1], <<sorted[1]>>, <<>>)

clusterPositions(positions, tolerance) ==
  IF positions = <<>> THEN <<>>
  ELSE LET sorted == RSortAsc(positions)
       IN  clusterScan(sorted, 2, tolerance, sorted[1], <<sorted[1]>>, <<>>)

inferRows(glyphs, yTolerance) ==
  RSortDesc(clusterPositions([i \in DOMAIN glyphs |-> CenterY(glyphs[i])], yTolerance))

(***************************************************************************)
(* src/src/table-detector.ts: automatic inference                          *)
(***************************************************************************)
\* the 1-based position of the center nearest to value, the first one on a
\* tie; position 1 (bestIndex 0) when centers is empty
findNearestIndex(value, centers) ==
  IF centers = <<>> THEN 1
  ELSE CHOOSE i \in DOMAIN centers :
         /\ \A j \in DOMAIN centers :
              RLe(RAbs(RSub(value, centers[i])), RAbs(RSub(value, centers[j])))
         /\ \A j \in 1..(i - 1) :
              RLt(RAbs(RSub(value, centers[i])), RAbs(RSub(value, centers[j])))

unionRects(a, b) ==
  LET xMin == Min(a.x, b.x)
      yMin == Min(a.y, b.y)
      xMax == Max(a.x + a.width, b.x + b.width)
      yMax == Max(a.y + a.height, b.y + b.height)
  IN  [x |-> xMin, y |-> yMin, width |-> xMax - xMin, height |-> yMax - yMin]

\* glyphs: a non-empty sequence of glyphs
bboxFromGlyphs(glyphs) ==
  LET xMin == SeqMinInt([i \in DOMAIN glyphs |-> glyphs[i].bbox.x])
      xMax == SeqMaxInt([i \in DOMAIN glyphs |-> glyphs[i].bbox.x + glyphs[i].bbox.width])
      yMin == SeqMinInt([i \in DOMAIN glyphs |-> glyphs[i].bbox.y])
      yMax == SeqMaxInt([i \in DOMAIN glyphs |-> glyphs[i].bbox.y + glyphs[i].bbox.height])
  IN  [x |-> xMin, y |-> yMin, width |-> xMax - xMin, height |-> yMax - yMin]

KMeansMaxIterations == 30
KMeansMinShift == Rat(1, 10)

\* one round of the k-means loop: the new means
kMeansRound(sorted, means) ==
  LET k == Len(means)
      cluster(i) == SelectIdx(Len(sorted), LAMBDA p : findNearestIndex(sorted[p], means) = i)
  IN  [i \in 1..k |->
         IF cluster(i) # <<>>
         THEN RMean([p \in DOMAIN cluster(i) |-> sorted[cluster(i)[p]]])
         ELSE means[i]]

RECURSIVE kMeansLoop(_, _, _)
kMeansLoop(sorted, means, iter) ==
  IF iter >= KMeansMaxIterations THEN means
  ELSE LET newMeans == kMeansRound(sorted, means)
           shifts == [i \in DOMAIN means |-> RAbs(RSub(newMeans[i], means[i]))]
           delta == IF \E i \in DOMAIN shifts : \A j \in DOMAIN shifts : RLe(shifts[j], shifts[i])
                    THEN shifts[CHOOSE i \in DOMAIN shifts :
                                  \A j \in DOMAIN shifts : RLe(shifts[j], shifts[i])]
                    ELSE R(0)
       IN  IF RLt(delta, KMeansMinShift) THEN newMeans
           ELSE kMeansLoop(sorted, newMeans, iter + 1)

\* with k = 0 and values left to assign, clusters[0] is undefined and
\* clusters[bestIndex].push(v) throws a TypeError
reclusterCenters1DThrows(values, k) ==
  values # <<>> /\ Len(values) > k /\ k <= 0

\* the k means (meaningless when reclusterCenters1DThrows)
reclusterCenters1D(values, k) ==
  IF values = <<>> THEN <<>>
  ELSE IF Len(values) <= k THEN RSortAsc(values)
  ELSE IF k <= 0 THEN <<>>
  ELSE LET sorted == RSortAsc(values)
           n == Len(sorted)
           means == [i \in 1..k |->
                       sorted[Min(((2 * (i - 1) + 1) * n) \div (2 * k), n - 1) + 1]]
       IN  RSortAsc(kMeansLoop(sorted, means, 0))

\* the weights w1..w4 of scoreColumnModel
WeightCompactness == Rat(1, 1)
WeightEmptyColumns == Rat(5, 1)
WeightRowVariance == Rat(1, 2)
WeightComplexity == Rat(1, 10)

\* INFINITY, or the cost of the layout columnCenters (lower is better)
scoreColumnModel(glyphs, rowCenters, columnCenters) ==
  LET numCols == Len(columnCenters)
      totalGlyphs == Len(glyphs)
      colIndex(g) == findNearestIndex(CenterX(glyphs[g]), columnCenters)
      rowIndex(g) == findNearestIndex(CenterY(glyphs[g]), rowCenters)
      colGlyphCounts == [c \in 1..numCols |->
                           Cardinality({g \in DOMAIN glyphs : colIndex(g) = c})]
      dist(g) == RSub(CenterX(glyphs[g]), columnCenters[colIndex(g)])
      totalSquared == RSum([g \in DOMAIN glyphs |-> RMul(dist(g), dist(g))])
      compactness == RDivInt(totalSquared, totalGlyphs)
      minPerCol == Max(2, totalGlyphs \div 100)
      emptyCols == Cardinality({c \in 1..numCols : colGlyphCounts[c] < minPerCol})
      usedCounts == [r \in DOMAIN rowCenters |->
                       Cardinality({colIndex(g) : g \in {h \in DOMAIN glyphs : rowIndex(h) = r}})]
      meanUsed == RDivInt(R(RSum([r \in DOMAIN usedCounts |-> R(usedCounts[r])]).n),
                          Max(Len(usedCounts), 1))
      rowVariance ==
        IF rowCenters = <<>> THEN R(0)
        ELSE RDivInt(RSum([r \in DOMAIN usedCounts |->
                             RMul(RSub(R(usedCounts[r]), meanUsed),
                                  RSub(R(usedCounts[r]), meanUsed))]),
                     Max(Len(usedCounts), 1))
      complexity == numCols
  IN  IF numCols = 0 \/ totalGlyphs = 0 THEN INFINITY
      ELSE RAdd(RAdd(RMul(WeightCompactness, compactness),
                     RMul(WeightEmptyColumns, R(emptyCols))),
                RAdd(RMul(WeightRowVariance, rowVariance),
                     RMul(WeightComplexity, R(complexity))))

\* score < bestScore, either of which may be INFINITY
ScoreLess(score, bestScore) ==
  /\ score # INFINITY
  /\ bestScore = INFINITY \/ RLt(score, bestScore)

\* the loop "for (let k = minK; k <= maxK; k++)" of inferColumnsSmart from k on
RECURSIVE inferColumnsLoop(_, _, _, _, _, _, _)
inferColumnsLoop(glyphs, rowCenters, candidateCenters, k, maxK, bestCenters, bestScore) ==
  IF k > maxK THEN bestCenters
  ELSE LET centersK == reclusterCenters1D(candidateCenters, k)
           score == scoreColumnModel(glyphs, rowCenters, centersK)
       IN  IF ScoreLess(score, bestScore)
           THEN inferColumnsLoop(glyphs, rowCenters, candidateCenters, k + 1, maxK,
                                 centersK, score)
           ELSE inferColumnsLoop(glyphs, rowCenters, candidateCenters, k + 1, maxK,
                                 bestCenters, bestScore)

\* the call of reclusterCenters1D for some K of the search throws
inferColumnsSmartThrows(glyphs, xTolerance, minCols, maxCols) ==
  LET centersAll == [i \in DOMAIN glyphs |-> CenterX(glyphs[i])]
      candidateCenters == clusterPositions(centersAll, xTolerance)
      maxK == Min(maxCols, Len(candidateCenters))
      minK == Min(minCols, maxK)
  IN  /\ glyphs # <<>>
      /\ maxK > 0
      /\ IF minK = maxK THEN reclusterCenters1DThrows(candidateCenters, maxK)
         ELSE \E k \in minK..maxK : reclusterCenters1DThrows(candidateCenters, k)

\* a faulty variant of inferColumnsSmart: every candidate center is a column
inferColumnsUnbounded(glyphs, rowCenters, xTolerance, minCols, maxCols) ==
  clusterPositions([i \in DOMAIN glyphs |-> CenterX(glyphs[i])], xTolerance)

\* the column centers, <<>> for none (meaningless when inferColumnsSmartThrows)
inferColumnsSmart(glyphs, rowCenters, xTolerance, minCols, maxCols) ==
  IF glyphs = <<>> THEN <<>>
  ELSE LET centersAll == [i \in DOMAIN glyphs |-> CenterX(glyphs[i])]
           candidateCenters == clusterPositions(centersAll, xTolerance)
           maxK == Min(maxCols, Len(candidateCenters))
           minK == Min(minCols, maxK)
       IN  IF candidateCenters = <<>> THEN <<>>
           ELSE IF maxK <= 0 THEN <<>>
           ELSE IF minK = maxK THEN reclusterCenters1D(candidateCenters, maxK)
           ELSE inferColumnsLoop(glyphs, rowCenters, candidateCenters, minK, maxK,
                                 <<>>, INFINITY)

\* buckets[r][c].glyphs: the positions in glyphs of the glyphs pushed to the
\* bucket of row band r and column band c, in push order
assignBuckets(glyphs, rowCenters, columnCenters) ==
  [r \in DOMAIN rowCenters |->
     [c \in DOMAIN columnCenters |->
        SelectIdx(Len(glyphs),
                  LAMBDA g : /\ findNearestIndex(CenterY(glyphs[g]), rowCenters) = r
                             /\ findNearestIndex(CenterX(glyphs[g]), columnCenters) = c)]]

\* the kept column positions; <<>> stands for null
getFrequentlyUsedColumnIndices(buckets) ==
  IF buckets = <<>> THEN <<>>
  ELSE LET numCols == Len(buckets[1])
           colUsage == [c \in 1..numCols |->
                          Cardinality({r \in DOMAIN buckets : buckets[r][c] # <<>>})]
           maxUsage == SeqMaxInt(colUsage)
           \* count >= maxUsage * 0.5
           kept == SelectIdx(numCols, LAMBDA c : 2 * colUsage[c] >= maxUsage)
       IN  IF numCols = 0 THEN <<>>
           ELSE IF maxUsage = 0 THEN <<>>
           ELSE IF kept = <<>> \/ Len(kept) = numCols THEN <<>>
           ELSE kept

\* a faulty variant of getLogicalColumnIndices: the template row is the last
\* of the rows with the most populated cells
getLogicalColumnIndicesLast(buckets) ==
  IF buckets = <<>> THEN <<>>
  ELSE LET nonEmptyCounts == [r \in DOMAIN buckets |->
                                Cardinality({c \in DOMAIN buckets[r] : buckets[r][c] # <<>>})]
           maxNonEmpty == SeqMaxInt(nonEmptyCounts)
           templateRowIndex == CHOOSE r \in DOMAIN buckets :
                                 /\ nonEmptyCounts[r] = maxNonEmpty
                                 /\ \A q \in (r + 1)..Len(buckets) : nonEmptyCounts[q] # maxNonEmpty
           templateRow == buckets[templateRowIndex]
           logicalCols == SelectIdx(Len(templateRow), LAMBDA c : templateRow[c] # <<>>)
       IN  IF maxNonEmpty = 0 THEN <<>>
           ELSE IF logicalCols = <<>> \/ Len(logicalCols) = Len(templateRow) THEN <<>>
           ELSE logicalCols

\* the kept column positions; <<>> stands for null
getLogicalColumnIndices(buckets) ==
  IF buckets = <<>> THEN <<>>
  ELSE LET nonEmptyCounts == [r \in DOMAIN buckets |->
                                Cardinality({c \in DOMAIN buckets[r] : buckets[r][c] # <<>>})]
           maxNonEmpty == SeqMaxInt(nonEmptyCounts)
           \* nonEmptyCounts.indexOf(maxNonEmpty)
           templateRowIndex == CHOOSE r \in DOMAIN buckets :
                                 /\ nonEmptyCounts[r] = maxNonEmpty
                                 /\ \A q \in 1..(r - 1) : nonEmptyCounts[q] # maxNonEmpty
           templateRow == buckets[templateRowIndex]
           logicalCols == SelectIdx(Len(templateRow), LAMBDA c : templateRow[c] # <<>>)
       IN  IF maxNonEmpty = 0 THEN <<>>
           ELSE IF logicalCols = <<>> \/ Len(logicalCols) = Len(templateRow) THEN <<>>
           ELSE logicalCols

\* bucket.glyphs.slice().sort((a, b) => a.bbox.x - b.bbox.x): a stable sort
RECURSIVE InsertByX(_, _, _)
InsertByX(glyphs, g, s) ==
  IF s = <<>> THEN <<g>>
  ELSE IF glyphs[g].bbox.x <= glyphs[s[1]].bbox.x THEN <<g>> \o s
  ELSE <<s[1]>> \o InsertByX(glyphs, g, Tail(s))
RECURSIVE SortByX(_, _)
SortByX(glyphs, s) ==
  IF s = <<>> THEN <<>>
  ELSE InsertByX(glyphs, s[1], SortByX(glyphs, Tail(s)))

\* .map(g => g.text).join("") over the glyphs of a bucket, left to right
bucketText(glyphs, bucket) ==
  LET sorted == SortByX(glyphs, bucket)
  IN  Join([i \in DOMAIN sorted |-> glyphs[sorted[i]].text], <<>>)

\* a faulty variant of buildRows: a position without fragments gets no cell
buildRowsDense(glyphs, buckets, colIndicesToUse) ==
  [r \in DOMAIN buckets |->
     [rowIndex |-> r - 1,
      cells |-> [l \in DOMAIN SelectIdx(Len(colIndicesToUse),
                                        LAMBDA k : buckets[r][colIndicesToUse[k]] # <<>>) |->
                   [rowIndex |-> r - 1, columnIndex |-> l - 1, text |-> <<"x">>,
                    bbox |-> [x |-> 0, y |-> 0, width |-> 1, height |-> 1]]]]]

\* step 6 of extractTableFromGlyphs: the rows over the kept columns
buildRows(glyphs, buckets, colIndicesToUse) ==
  [r \in DOMAIN buckets |->
     [rowIndex |-> r - 1,
      cells |-> [l \in DOMAIN colIndicesToUse |->
        LET bucket == buckets[r][colIndicesToUse[l]] IN
        IF bucket = <<>>
        THEN [rowIndex |-> r - 1, columnIndex |-> l - 1, text |-> <<>>, bbox |-> NULL]
        ELSE [rowIndex |-> r - 1, columnIndex |-> l - 1,
              text |-> bucketText(glyphs, bucket),
              bbox |-> bboxFromGlyphs([i \in DOMAIN bucket |-> glyphs[bucket[i]]])]]]]

IsBlankRow(row) == \A c \in DOMAIN row.cells : Trim(row.cells[c].text) = <<>>

\* a faulty variant of trimLeadingEmptyRows: every empty row is dropped
trimEmptyRows(rows) ==
  LET kept == SelectIdx(Len(rows), LAMBDA r : ~IsBlankRow(rows[r]))
  IN  [i \in DOMAIN kept |->
         [rowIndex |-> i - 1,
          cells |-> [c \in DOMAIN rows[kept[i]].cells |->
                       [rows[kept[i]].cells[c] EXCEPT !.rowIndex = i - 1,
                                                      !.columnIndex = c - 1]]]]

trimLeadingEmptyRows(rows) ==
  IF \A r \in DOMAIN rows : IsBlankRow(rows[r]) THEN <<>>
  ELSE LET firstContentRow == CHOOSE r \in DOMAIN rows :
                                /\ ~IsBlankRow(rows[r])
                                /\ \A q \in 1..(r - 1) : IsBlankRow(rows[q])
           kept == SubSeq(rows, firstContentRow, Len(rows))
       IN  [i \in DOMAIN kept |->
              [rowIndex |-> i - 1,
               cells |-> [c \in DOMAIN kept[i].cells |->
                            [kept[i].cells[c] EXCEPT !.rowIndex = i - 1,
                                                     !.columnIndex = c - 1]]]]

\* /^-?\d{1,4}(?:[.,]\d+)?$/ on the value without whitespace
isNumericish(value) ==
  LET normalized == StripWhitespace(Trim(value))
      unsigned == IF normalized # <<>> /\ normalized[1] = "-" THEN Tail(normalized)
                  ELSE normalized
      nonDigits == {i \in DOMAIN unsigned : ~IsDigit(unsigned[i])}
      p == IF nonDigits = {} THEN Len(unsigned) + 1
           ELSE CHOOSE i \in nonDigits : \A j \in nonDigits : i <= j
      fraction == SubSeq(unsigned, p + 1, Len(unsigned))
  IN  /\ Trim(value) # <<>>
      /\ p - 1 >= 1 /\ p - 1 <= 4
      /\ \/ p = Len(unsigned) + 1
         \/ /\ unsigned[p] \in {".", ","}
            /\ fraction # <<>>
            /\ AllDigits(fraction)

\* /^\d{4}-\d{2}$/
isDateLike(value) ==
  LET trimmed == Trim(value)
  IN  /\ Len(trimmed) = 7
      /\ AllDigits(SubSeq(trimmed, 1, 4))
      /\ trimmed[5] = "-"
      /\ AllDigits(SubSeq(trimmed, 6, 7))

\* Math.ceil(n * 0.5)
CeilHalf(n) == (n + 1) \div 2

\* the non-empty trimmed texts of a row, as positions of its cells
NonEmptyCells(row) == {c \in DOMAIN row.cells : Trim(row.cells[c].text) # <<>>}

\* isLikelyDataRow of table-detector.ts
detectorIsLikelyDataRow(row) ==
  LET values == NonEmptyCells(row)
      numericish == Cardinality({c \in values :
                       isNumericish(Trim(row.cells[c].text)) \/ isDateLike(Trim(row.cells[c].text))})
      threshold == Max(2, CeilHalf(Cardinality(values)))
  IN  values # {} /\ numericish >= threshold

\* the number of leading rows of rows that satisfy ~IsData
LeadingNonData(rows, IsData(_)) ==
  LET stops == {r \in DOMAIN rows : IsData(rows[r])}
  IN  IF stops = {} THEN Len(rows)
      ELSE (CHOOSE r \in stops : \A q \in stops : r <= q) - 1

\* countHeaderRows of table-detector.ts
detectorCountHeaderRows(rows) ==
  IF rows = <<>> THEN 0
  ELSE Max(1, Min(LeadingNonData(rows, detectorIsLikelyDataRow), Len(rows)))

\* a faulty variant of selectHeaderColumns: the first row alone is the header
selectHeaderColumnsFirstRow(rows, headerRowCount) ==
  IF rows = <<>> THEN <<>>
  ELSE LET numCols == Len(rows[1].cells)
           text(r, col) == Trim(rows[r].cells[col].text)
           allEmpty(col) == \A r \in DOMAIN rows : text(r, col) = <<>>
           keep(col) ==
             \/ text(1, col) # <<>>
             \/ /\ col = 1
                /\ Len(rows) > 1
                /\ \A r \in 2..Len(rows) : text(r, col) # <<>>
       IN  SelectIdx(numCols, LAMBDA col : ~allEmpty(col) /\ keep(col))

\* the kept column positions
selectHeaderColumns(rows, headerRowCount) ==
  IF rows = <<>> THEN <<>>
  ELSE LET nHeader == Min(Max(1, headerRowCount), Len(rows))
           numCols == Len(rows[1].cells)
           text(r, col) == Trim(rows[r].cells[col].text)
           combinedHeaderEmpty(col) == \A r \in 1..nHeader : text(r, col) = <<>>
           allEmpty(col) == \A r \in DOMAIN rows : text(r, col) = <<>>
           bodyRows == (nHeader + 1)..Len(rows)
           keep(col) ==
             \/ ~combinedHeaderEmpty(col)
             \/ /\ col = 1
                /\ combinedHeaderEmpty(col)
                /\ bodyRows # {}
                /\ \A r \in bodyRows : text(r, col) # <<>>
       IN  SelectIdx(numCols, LAMBDA col : ~allEmpty(col) /\ keep(col))

remapRowsWithColumns(rows, columnIndices) ==
  [r \in DOMAIN rows |->
     [rowIndex |-> r - 1,
      cells |-> [n \in DOMAIN columnIndices |->
                   [rows[r].cells[columnIndices[n]] EXCEPT !.rowIndex = r - 1,
                                                           !.columnIndex = n - 1]]]]

\* step 5 of extractTableFromGlyphs: the columns kept as logical columns
columnsToUse(frequentCols, logicalColIndices, columnCenters) ==
  IF frequentCols # <<>> THEN frequentCols
  ELSE IF logicalColIndices # <<>> THEN logicalColIndices
  ELSE [c \in DOMAIN columnCenters |-> c]

\* extractTableFromGlyphs from "const headerRowCount" on
filteredTable(pageIdx, glyphs, trimmedRows, headerFilteredColumns) ==
  IF headerFilteredColumns = <<>> THEN NULL
  ELSE [pageIndex |-> pageIdx,
        bbox |-> bboxFromGlyphs(glyphs),
        rows |-> remapRowsWithColumns(trimmedRows, headerFilteredColumns)]

\* extractTableFromGlyphs from "const trimmedRows" on
trimmedTable(pageIdx, glyphs, trimmedRows) ==
  IF trimmedRows = <<>> THEN NULL
  ELSE filteredTable(pageIdx, glyphs, trimmedRows,
                     selectHeaderColumns(trimmedRows, detectorCountHeaderRows(trimmedRows)))

\* extractTableFromGlyphs from "const buckets" on
gridTable(pageIdx, glyphs, columnCenters, buckets) ==
  trimmedTable(pageIdx, glyphs,
    trimLeadingEmptyRows(
      buildRows(glyphs, buckets,
                columnsToUse(getFrequentlyUsedColumnIndices(buckets),
                             getLogicalColumnIndices(buckets), columnCenters))))

\* extractTableFromGlyphs from "const xTolerance" on: the automatic inference
\* (meaningless when inferColumnsSmartThrows)
automaticTable(pageIdx, glyphs, rowCenters, columnCenters) ==
  IF rowCenters = <<>> \/ columnCenters = <<>> THEN NULL
  ELSE gridTable(pageIdx, glyphs, columnCenters,
                 assignBuckets(glyphs, rowCenters, columnCenters))

(***************************************************************************)
(* src/src/table-detector.ts: header-guided extraction                     *)
(***************************************************************************)
\* raw.split(/\n+/): the pieces of raw between runs of line breaks
RECURSIVE SplitLines(_, _)
SplitLines(raw, current) ==
  IF raw = <<>> THEN <<current>>
  ELSE IF raw[1] = "\n"
       THEN IF Len(raw) >= 2 /\ raw[2] = "\n" THEN SplitLines(Tail(raw), current)
            ELSE <<current>> \o SplitLines(Tail(raw), <<>>)
       ELSE SplitLines(Tail(raw), Append(current, raw[1]))

\* raw.split(/\n+/).map(p => p.trim()).filter(Boolean)
headerParts(raw) ==
  LET pieces == SplitLines(raw, <<>>)
      kept == SelectIdx(Len(pieces), LAMBDA i : Trim(pieces[i]) # <<>>)
  IN  [i \in DOMAIN kept |-> Trim(pieces[kept[i]])]

\* glyphs.filter(g => g.text.trim() !== ""), as positions in glyphs
nonSpaceGlyphs(glyphs) == SelectIdx(Len(glyphs), LAMBDA g : Trim(glyphs[g].text) # <<>>)

\* a faulty variant of matchParts: the text of the fragment is not trimmed
RECURSIVE matchPartsUntrimmed(_, _, _)
matchPartsUntrimmed(glyphs, parts, st) ==
  IF parts = <<>> \/ st.failed THEN st
  ELSE LET candidates == {g \in DOMAIN glyphs : g \notin st.used /\ glyphs[g].text = parts[1]}
       IN  IF candidates = {} THEN [st EXCEPT !.failed = TRUE]
           ELSE LET match == CHOOSE g \in candidates : \A h \in candidates : g <= h
                IN  matchPartsUntrimmed(glyphs, Tail(parts),
                      [failed |-> FALSE,
                       used |-> st.used \cup {match},
                       bbox |-> IF st.bbox = NULL THEN glyphs[match].bbox
                                ELSE unionRects(st.bbox, glyphs[match].bbox)])

\* a faulty variant of matchParts: a matched fragment can be matched again
RECURSIVE matchPartsReusing(_, _, _)
matchPartsReusing(glyphs, parts, st) ==
  IF parts = <<>> \/ st.failed THEN st
  ELSE LET candidates == {g \in DOMAIN glyphs : Trim(glyphs[g].text) = parts[1]}
       IN  IF candidates = {} THEN [st EXCEPT !.failed = TRUE]
           ELSE LET match == CHOOSE g \in candidates : \A h \in candidates : g <= h
                IN  matchPartsReusing(glyphs, Tail(parts),
                      [failed |-> FALSE,
                       used |-> st.used \cup {match},
                       bbox |-> IF st.bbox = NULL THEN glyphs[match].bbox
                                ELSE unionRects(st.bbox, glyphs[match].bbox)])

\* the loop over the parts of one label: st = [failed, used, bbox]
RECURSIVE matchParts(_, _, _)
matchParts(glyphs, parts, st) ==
  IF parts = <<>> \/ st.failed THEN st
  ELSE LET candidates == {g \in DOMAIN glyphs :
                            /\ Trim(glyphs[g].text) # <<>>
                            /\ g \notin st.used
                            /\ Trim(glyphs[g].text) = parts[1]}
       IN  IF candidates = {} THEN [st EXCEPT !.failed = TRUE]
           ELSE LET match == CHOOSE g \in candidates : \A h \in candidates : g <= h
                IN  matchParts(glyphs, Tail(parts),
                      [failed |-> FALSE,
                       used |-> st.used \cup {match},
                       bbox |-> IF st.bbox = NULL THEN glyphs[match].bbox
                                ELSE unionRects(st.bbox, glyphs[match].bbox)])

\* the loop over the labels: st = [failed, used, headerCells]
RECURSIVE matchHeaders(_, _, _)
matchHeaders(glyphs, headers, st) ==
  IF headers = <<>> \/ st.failed THEN st
  ELSE LET raw == headers[1]
           parts == headerParts(raw)
           m == matchParts(glyphs, parts, [failed |-> FALSE, used |-> st.used, bbox |-> NULL])
       IN  IF parts = <<>> THEN matchHeaders(glyphs, Tail(headers), st)
           ELSE IF m.failed THEN [st EXCEPT !.failed = TRUE]
           ELSE matchHeaders(glyphs, Tail(headers),
                  [failed |-> FALSE,
                   used |-> m.used,
                   headerCells |-> Append(st.headerCells,
                                     [title |-> Trim(CollapseWhitespace(raw)), bbox |-> m.bbox])])

\* headerCells.sort((a, b) => a.bbox.x - b.bbox.x): a stable sort
RECURSIVE InsertHeaderCell(_, _)
InsertHeaderCell(h, s) ==
  IF s = <<>> THEN <<h>>
  ELSE IF h.bbox.x <= s[1].bbox.x THEN <<h>> \o s
  ELSE <<s[1]>> \o InsertHeaderCell(h, Tail(s))
RECURSIVE sortHeaderCells(_)
sortHeaderCells(s) ==
  IF s = <<>> THEN <<>> ELSE InsertHeaderCell(s[1], sortHeaderCells(Tail(s)))

\* Math.max(...headerCells.map(h => h.bbox.y + h.bbox.height))
headerBottomOf(hCells) == SeqMaxInt([i \in DOMAIN hCells |-> hCells[i].bbox.y + hCells[i].bbox.height])

\* the comparator of the body sort: a before b
BodyBefore(glyphs, a, b) ==
  LET ca == 2 * glyphs[a].bbox.y + glyphs[a].bbox.height
      cb == 2 * glyphs[b].bbox.y + glyphs[b].bbox.height
  IN  IF ca # cb THEN ca > cb ELSE glyphs[a].bbox.x < glyphs[b].bbox.x
RECURSIVE InsertBody(_, _, _)
InsertBody(glyphs, g, s) ==
  IF s = <<>> THEN <<g>>
  ELSE IF ~BodyBefore(glyphs, s[1], g) THEN <<g>> \o s
  ELSE <<s[1]>> \o InsertBody(glyphs, g, Tail(s))
RECURSIVE SortBody(_, _)
SortBody(glyphs, s) ==
  IF s = <<>> THEN <<>> ELSE InsertBody(glyphs, s[1], SortBody(glyphs, Tail(s)))

\* nonSpaceGlyphs.filter(g => g.bbox.y + g.bbox.height <= headerBottom + 0.1).sort(...)
bodyGlyphsOf(glyphs, headerBottom) ==
  LET ns == nonSpaceGlyphs(glyphs)
      kept == SelectIdx(Len(ns), LAMBDA i :
                 glyphs[ns[i]].bbox.y + glyphs[ns[i]].bbox.height <= headerBottom)
  IN  SortBody(glyphs, [i \in DOMAIN kept |-> ns[kept[i]]])

\* a faulty variant of overlapsOf: only the first overlapped band is reported
overlapsFirst(cols, glyph) ==
  LET all == SelectIdx(Len(cols), LAMBDA c :
        Min(cols[c].end, glyph.bbox.x + glyph.bbox.width) - Max(cols[c].start, glyph.bbox.x) > 0)
  IN  IF all = <<>> THEN <<>> ELSE <<all[1]>>

\* the positions of the column bands the glyph overlaps by more than 0
overlapsOf(cols, glyph) ==
  SelectIdx(Len(cols), LAMBDA c :
    Min(cols[c].end, glyph.bbox.x + glyph.bbox.width) - Max(cols[c].start, glyph.bbox.x) > 0)

\* the rows of the header-guided table
guidedRows(glyphs, rBuckets) ==
  [r \in DOMAIN rBuckets |->
     [rowIndex |-> r - 1,
      cells |-> [c \in DOMAIN rBuckets[r] |->
        LET bucket == rBuckets[r][c] IN
        IF bucket.glyphs = <<>>
        THEN [rowIndex |-> r - 1, columnIndex |-> c - 1, text |-> <<>>, bbox |-> NULL]
        ELSE [rowIndex |-> r - 1, columnIndex |-> c - 1,
              text |-> bucketText(glyphs, bucket.glyphs),
              bbox |-> bucket.bbox]]]]

RECURSIVE unionAll(_, _)
unionAll(acc, rects) ==
  IF rects = <<>> THEN acc ELSE unionAll(unionRects(acc, rects[1]), Tail(rects))

guidedBbox(hCells, headerBottom, lastBottom) ==
  unionRects(unionAll(hCells[1].bbox, [i \in DOMAIN hCells |-> hCells[i].bbox]),
             [x |-> 0, y |-> lastBottom, width |-> 0, height |-> headerBottom - lastBottom])

(***************************************************************************)
(* src/src/index.ts: the cross-page merge                                  *)
(***************************************************************************)
normalizeTableRows(t) ==
  [t EXCEPT !.rows =
     [r \in DOMAIN t.rows |->
        [rowIndex |-> r - 1,
         cells |-> [c \in DOMAIN t.rows[r].cells |->
                      [t.rows[r].cells[c] EXCEPT !.rowIndex = r - 1, !.columnIndex = c - 1]]]]]

\* rows[0]?.cells.length ?? 0
columnCount(t) == IF t.rows = <<>> THEN 0 ELSE Len(t.rows[1].cells)

\* a faulty variant of canMergeTables: any two tables are compatible
canMergeAlways(prev, next) == TRUE

canMergeTables(prev, next) ==
  LET prevCols == columnCount(prev)
      nextCols == columnCount(next)
  IN  IF prevCols = 0 \/ nextCols = 0 THEN FALSE ELSE prevCols = nextCols

getHeaderTexts(t) ==
  IF t.rows = <<>> THEN <<>>
  ELSE [c \in DOMAIN t.rows[1].cells |-> Trim(t.rows[1].cells[c].text)]

headersEqual(a, b) ==
  IF Len(a) # Len(b) THEN FALSE ELSE \A i \in DOMAIN a : a[i] = b[i]

\* a faulty variant of shouldDropRepeatedHeader: the first row is always kept
neverDropHeader(prev, next) == FALSE

shouldDropRepeatedHeader(prev, next) ==
  LET prevHeader == getHeaderTexts(prev)
      nextHeader == getHeaderTexts(next)
      prevHasHeader == \E i \in DOMAIN prevHeader : prevHeader[i] # <<>>
      nextHasHeader == \E i \in DOMAIN nextHeader : nextHeader[i] # <<>>
  IN  prevHasHeader /\ nextHasHeader /\ headersEqual(prevHeader, nextHeader)

\* a faulty variant of remapRows: the appended rows keep the indices they had
\* in their own table
remapRowsUnnumbered(rowsToAppend, offset) == rowsToAppend

\* rowsToAppend.map(...): the rows renumbered from offset on
remapRows(rowsToAppend, offset) ==
  [i \in DOMAIN rowsToAppend |->
     [rowIndex |-> offset + (i - 1),
      cells |-> [c \in DOMAIN rowsToAppend[i].cells |->
                   [rowsToAppend[i].cells[c] EXCEPT !.rowIndex = offset + (i - 1),
                                                    !.columnIndex = c - 1]]]]

\* a faulty variant of mergeOne: the table is appended to the first output
\* table of its width, not to the last output table
mergeIntoFirst(mergedSoFar, tbl) ==
  LET fits == {i \in DOMAIN mergedSoFar :
                 Len(mergedSoFar[i].rows[1].cells) = Len(tbl.rows[1].cells)}
      first == CHOOSE i \in fits : \A j \in fits : i <= j
  IN  IF fits = {} THEN Append(mergedSoFar, tbl)
      ELSE [mergedSoFar EXCEPT ![first].rows = @ \o tbl.rows]

\* a faulty variant of mergeOne: the running table takes the pageIndex and
\* the bbox of the table appended to it
mergeReframed(mergedSoFar, tbl) ==
  LET normalized == normalizeTableRows(tbl)
      last == mergedSoFar[Len(mergedSoFar)]
  IN  IF mergedSoFar # <<>> /\ canMergeTables(last, normalized)
      THEN [mergedSoFar EXCEPT ![Len(mergedSoFar)] =
              [pageIndex |-> normalized.pageIndex, bbox |-> normalized.bbox,
               rows |-> last.rows \o remapRows(normalized.rows, Len(last.rows))]]
      ELSE Append(mergedSoFar, normalized)

\* the body of "for (const table of tables)": merged after the iteration
mergeOne(mergedSoFar, tbl) ==
  LET normalized == normalizeTableRows(tbl)
      last == mergedSoFar[Len(mergedSoFar)]
      rowsToAppend == IF shouldDropRepeatedHeader(last, normalized)
                      THEN Tail(normalized.rows)
                      ELSE normalized.rows
  IN  IF mergedSoFar # <<>> /\ canMergeTables(last, normalized)
      THEN [mergedSoFar EXCEPT ![Len(mergedSoFar)].rows =
              @ \o remapRows(rowsToAppend, Len(last.rows))]
      ELSE Append(mergedSoFar, normalized)

(***************************************************************************)
(* src/src/index.ts: the mapping of a table to header-keyed objects        *)
(***************************************************************************)
DigitValue(c) ==
  CASE c = "0" -> 0 [] c = "1" -> 1 [] c = "2" -> 2 [] c = "3" -> 3 [] c = "4" -> 4
    [] c = "5" -> 5 [] c = "6" -> 6 [] c = "7" -> 7 [] c = "8" -> 8 [] c = "9" -> 9

RECURSIVE DigitsValue(_)
DigitsValue(s) ==
  IF s = <<>> THEN 0 ELSE 10 * DigitsValue(SubSeq(s, 1, Len(s) - 1)) + DigitValue(s[Len(s)])

RECURSIVE Pow10(_)
Pow10(k) == IF k = 0 THEN 1 ELSE 10 * Pow10(k - 1)

\* Number(s) when it is finite, NULL when it is NaN; s holds no whitespace.
\* The decimal literals [+-]digits[.digits] are computed; the strings of the
\* model hold no exponent, no 0x / 0o / 0b prefix and no "Infinity".
StrToNumber(s) ==
  LET signed == s # <<>> /\ s[1] \in {"-", "+"}
      unsigned == IF signed THEN Tail(s) ELSE s
      dot == IndexOf(unsigned, ".")
      whole == IF dot = 0 THEN unsigned ELSE SubSeq(unsigned, 1, dot - 1)
      fraction == IF dot = 0 THEN <<>> ELSE SubSeq(unsigned, dot + 1, Len(unsigned))
      magnitude == Rat(DigitsValue(whole \o fraction), Pow10(Len(fraction)))
  IN  IF s = <<>> THEN R(0)
      ELSE IF AllDigits(whole) /\ AllDigits(fraction) /\ whole \o fraction # <<>>
      THEN IF signed /\ s[1] = "-" THEN [magnitude EXCEPT !.n = -@] ELSE magnitude
      ELSE NULL

\* the characters of s at the positions that are not in removed
RemovePositions(s, removed) ==
  LET kept == SortedSeq(DOMAIN s \ removed) IN [i \in DOMAIN kept |-> s[kept[i]]]

\* a faulty variant of GroupingPositions: every mark before three digits
GroupingPositionsOpen(s, mark, separator) ==
  {i \in DOMAIN s : s[i] = mark /\ i + 3 <= Len(s) /\ AllDigits(SubSeq(s, i + 1, i + 3))}

\* the positions of the grouping marks: mark, then \d{3}, then mark, separator or the end
GroupingPositions(s, mark, separator) ==
  {i \in DOMAIN s :
     /\ s[i] = mark
     /\ i + 3 <= Len(s)
     /\ AllDigits(SubSeq(s, i + 1, i + 3))
     /\ i + 3 = Len(s) \/ s[i + 4] \in {mark, separator}}

normalizeNumberString(value, decimalSeparator) ==
  LET separator == IF decimalSeparator = "" THEN "." ELSE decimalSeparator
      stripped == StripWhitespace(value)
      thousandSeparator == IF separator = "," THEN "." ELSE ","
      ungrouped == RemovePositions(stripped,
                                   GroupingPositions(stripped, thousandSeparator, separator))
  IN  IF separator # "."
      THEN [i \in DOMAIN ungrouped |-> IF ungrouped[i] = separator THEN "." ELSE ungrouped[i]]
      ELSE RemovePositions(stripped, GroupingPositions(stripped, ",", "."))

\* the number, NULL for null
parseNumericValue(value, decimalSeparator) ==
  IF Trim(value) = <<>> THEN NULL
  ELSE StrToNumber(normalizeNumberString(value, decimalSeparator))

\* isLikelyDataRow of index.ts
isLikelyDataRow(row, decimalSeparator) ==
  LET values == NonEmptyCells(row)
      numericish == Cardinality({c \in values :
                      \/ isDateLike(Trim(row.cells[c].text))
                      \/ parseNumericValue(Trim(row.cells[c].text), decimalSeparator) # NULL})
      threshold == Max(2, CeilHalf(Cardinality(values)))
  IN  values # {} /\ numericish >= threshold

\* a faulty variant of countHeaderRows: the count is not clamped to 1
countLeadingRows(rows, decimalSeparator) ==
  LeadingNonData(rows, LAMBDA row : isLikelyDataRow(row, decimalSeparator))

\* countHeaderRows of index.ts
countHeaderRows(rows, decimalSeparator) ==
  IF rows = <<>> THEN 0
  ELSE Max(1, Min(LeadingNonData(rows, LAMBDA row : isLikelyDataRow(row, decimalSeparator)),
                  Len(rows)))

\* a faulty variant of mergeHeaderRows: the labels of the first row alone
firstHeaderRowOnly(rows) == [col \in DOMAIN rows[1].cells |-> Trim(rows[1].cells[col].text)]

mergeHeaderRows(rows) ==
  IF rows = <<>> THEN <<>>
  ELSE [col \in DOMAIN rows[1].cells |->
          LET nonEmpty == SelectIdx(Len(rows), LAMBDA r : Trim(rows[r].cells[col].text) # <<>>)
              parts == [i \in DOMAIN nonEmpty |-> Trim(rows[nonEmpty[i]].cells[col].text)]
          IN  Trim(CollapseWhitespace(Join(parts, <<" ">>)))]

ColumnPrefix == <<"c", "o", "l", "u", "m", "n">>

\* headers.map(...) from position idx on; seen maps a base to its count
RECURSIVE buildHeaderKeysFrom(_, _, _)
buildHeaderKeysFrom(headers, idx, seen) ==
  IF idx > Len(headers) THEN <<>>
  ELSE LET header == headers[idx]
           base == IF header = <<>> THEN ColumnPrefix \o NatToStr(idx) ELSE header
           count == (IF base \in DOMAIN seen THEN seen[base] ELSE 0) + 1
           key == IF count = 1 THEN base ELSE base \o <<"_">> \o NatToStr(count)
       IN  <<key>> \o buildHeaderKeysFrom(headers, idx + 1,
                        [b \in DOMAIN seen \cup {base} |-> IF b = base THEN count ELSE seen[b]])

\* a faulty variant of buildHeaderKeys: repeated labels get no suffix
buildHeaderKeysPlain(headers) ==
  [idx \in DOMAIN headers |->
     IF headers[idx] = <<>> THEN ColumnPrefix \o NatToStr(idx) ELSE headers[idx]]

buildHeaderKeys(headers) == buildHeaderKeysFrom(headers, 1, <<>>)

NumberValue(q) == [kind |-> "number", n |-> q.n, d |-> q.d]
StringValue(t) == [kind |-> "string", text |-> t]

isNumericColumn(values, decimalSeparator) ==
  LET allNumeric == \A i \in DOMAIN values :
                      \/ Trim(values[i]) = <<>>
                      \/ parseNumericValue(Trim(values[i]), decimalSeparator) # NULL
      sawNumeric == \E i \in DOMAIN values :
                      /\ Trim(values[i]) # <<>>
                      /\ parseNumericValue(Trim(values[i]), decimalSeparator) # NULL
  IN  allNumeric /\ sawNumeric

\* the value stored under headerKeys[idx]
cellValue(row, idx, numericColumns, decimalSeparator) ==
  LET raw == Trim(row.cells[idx].text)
      parsed == parseNumericValue(raw, decimalSeparator)
  IN  IF numericColumns[idx]
      THEN IF parsed = NULL THEN UNDEFINED ELSE NumberValue(parsed)
      ELSE StringValue(raw)

\* headerKeys.forEach(...) from position idx on: record[key] = value
RECURSIVE mapRowFrom(_, _, _, _, _, _)
mapRowFrom(row, headerKeys, numericColumns, decimalSeparator, idx, record) ==
  IF idx > Len(headerKeys) THEN record
  ELSE mapRowFrom(row, headerKeys, numericColumns, decimalSeparator, idx + 1,
         [k \in DOMAIN record \cup {headerKeys[idx]} |->
            IF k = headerKeys[idx] THEN cellValue(row, idx, numericColumns, decimalSeparator)
            ELSE record[k]])

\* the record, a function from the keys it holds to their values
mapRowToObject(row, headerKeys, numericColumns, decimalSeparator) ==
  mapRowFrom(row, headerKeys, numericColumns, decimalSeparator, 1, <<>>)

\* tableToObjects from "const mergedHeaders" on
objectsOf(t, headerKeys, bodyRows, decimalSeparator) ==
  LET columnValues == [col \in DOMAIN headerKeys |->
                         [r \in DOMAIN bodyRows |-> Trim(bodyRows[r].cells[col].text)]]
      numericColumns == [col \in DOMAIN headerKeys |->
                           isNumericColumn(columnValues[col], decimalSeparator)]
  IN  [pageIndex |-> t.pageIndex,
       headers |-> headerKeys,
       rows |-> [r \in DOMAIN bodyRows |->
                   mapRowToObject(bodyRows[r], headerKeys, numericColumns, decimalSeparator)]]

tableToObjects(t, decimalSeparator) ==
  IF t.rows = <<>> THEN [pageIndex |-> t.pageIndex, headers |-> <<>>, rows |-> <<>>]
  ELSE LET headerRowCount == countHeaderRows(t.rows, decimalSeparator)
       IN  objectsOf(t, buildHeaderKeys(mergeHeaderRows(SubSeq(t.rows, 1, headerRowCount))),
                     SubSeq(t.rows, headerRowCount + 1, Len(t.rows)), decimalSeparator)

(***************************************************************************)
(* Inputs                                                                  *)
(***************************************************************************)
Glyph(t, gx, gy, w, h) == [text |-> t, bbox |-> [x |-> gx, y |-> gy, width |-> w, height |-> h]]

\* at most this many fragments on an enumerated page
MaxGlyphs == 3

\* the fragments the enumerated pages are made of: two header labels, body
\* values under each, a shifted value, a fragment spanning both columns and
\* a whitespace fragment in a third column
GlyphPool ==
  { Glyph(<<"a">>, 0, 20, 4, 4),
    Glyph(<<"b">>, 10, 20, 4, 4),
    Glyph(<<"1">>, 0, 10, 4, 4),
    Glyph(<<"2">>, 10, 10, 4, 4),
    Glyph(<<"x">>, 1, 0, 4, 4),
    Glyph(<<"1", "2">>, 2, 10, 12, 4),
    Glyph(<<" ">>, 20, 10, 4, 4) }

Name == <<"N", "a", "m", "e">>
Age == <<"A", "g", "e">>
City == <<"C", "i", "t", "y">>
John == <<"J", "o", "h", "n">>

\* the grid-inference scenario: Name / Age / City over John / 5
ScenarioGrid ==
  << Glyph(Name, 0, 10, 4, 10), Glyph(Age, 10, 10, 3, 10), Glyph(City, 20, 10, 4, 10),
     Glyph(John, 0, 0, 4, 10), Glyph(<<"5">>, 10, 0, 1, 10) >>

\* one column used in three rows, one used once: the usage filter drops it
ScenarioUsage ==
  << Glyph(<<"a">>, 0, 30, 4, 4), Glyph(<<"1">>, 0, 20, 4, 4), Glyph(<<"2">>, 0, 10, 4, 4),
     Glyph(<<"b">>, 10, 10, 4, 4) >>

\* the first row holds only a fragment of a column the template row lacks
ScenarioTemplate ==
  << Glyph(<<"c">>, 20, 20, 4, 4), Glyph(<<"a">>, 0, 10, 4, 4), Glyph(<<"b">>, 10, 10, 4, 4),
     Glyph(<<"1">>, 0, 0, 4, 4), Glyph(<<"2">>, 10, 0, 4, 4) >>

\* a header row, two body rows, then a fragment spanning both columns
ScenarioGuided ==
  << Glyph(<<"b">>, 10, 20, 4, 4), Glyph(<<"a">>, 0, 20, 4, 4), Glyph(<<"1">>, 0, 10, 4, 4),
     Glyph(<<"x">>, 1, 0, 6, 4), Glyph(<<"2">>, 10, 0, 4, 4), Glyph(<<"1", "2">>, 2, -20, 12, 4) >>

\* a label that ends with a space, as text items of a PDF often do
ScenarioPadded ==
  << Glyph(<<"a", " ">>, 0, 10, 4, 4), Glyph(<<"b">>, 10, 10, 4, 4),
     Glyph(<<"1">>, 0, 0, 4, 4), Glyph(<<"2">>, 10, 0, 4, 4) >>

\* two fragments with the same text over a body row
ScenarioRepeated ==
  << Glyph(<<"a">>, 10, 10, 4, 4), Glyph(<<"a">>, 0, 10, 4, 4),
     Glyph(<<"1">>, 0, 0, 4, 4), Glyph(<<"2">>, 10, 0, 4, 4) >>

\* a header row and a body row, a fragment spanning both columns, and a
\* fragment below it
ScenarioSpanning ==
  << Glyph(<<"a">>, 0, 20, 4, 4), Glyph(<<"b">>, 10, 20, 4, 4), Glyph(<<"1">>, 0, 10, 4, 4),
     Glyph(<<"1", "2">>, 2, 0, 12, 4), Glyph(<<"2">>, 10, -10, 4, 4) >>

\* a row whose second fragment sits lower than its first, and a fragment
\* further down
ScenarioUneven ==
  << Glyph(<<"a">>, 0, 20, 4, 4), Glyph(<<"b">>, 10, 18, 4, 4), Glyph(<<"x">>, 1, 6, 4, 4) >>

\* a header of two rows, each with one label, over a row of numbers
ScenarioStacked ==
  << Glyph(<<"a">>, 0, 20, 4, 4), Glyph(<<"b">>, 10, 10, 4, 4),
     Glyph(<<"1">>, 0, 0, 4, 4), Glyph(<<"2">>, 10, 0, 4, 4) >>

ScenarioPages ==
  {ScenarioGrid, ScenarioUsage, ScenarioTemplate, ScenarioGuided, ScenarioPadded,
   ScenarioRepeated, ScenarioSpanning, ScenarioUneven, ScenarioStacked}

\* the scenario pages and every page of up to MaxGlyphs different fragments
\* of the pool, in every load order
Pages ==
  ScenarioPages
    \cup UNION {{p \in [1..n -> GlyphPool] : \A i, j \in 1..n : p[i] = p[j] => i = j} :
                 n \in 0..MaxGlyphs}

DefaultOptions ==
  [xTolerance |-> 3, yTolerance |-> 3, minColumnCount |-> 2, maxColumnCount |-> 15,
   columnHeaders |-> <<>>, endOfTableWhitespace |-> INFINITY]

\* the options of the scenarios: the tolerances of the grid scenario, which
\* band the fragments of the pool as the defaults do, labels without a part,
\* which leave every page to the automatic inference, and a repeated label
ScenarioOptionSets ==
  { [DefaultOptions EXCEPT !.xTolerance = 2, !.yTolerance = 2],
    [DefaultOptions EXCEPT !.columnHeaders = << <<" ">> >>],
    [DefaultOptions EXCEPT !.columnHeaders = << <<"a">>, <<"a">> >>] }

OptionSets ==
  { DefaultOptions,
    [DefaultOptions EXCEPT !.minColumnCount = 1, !.maxColumnCount = 2],
    [DefaultOptions EXCEPT !.columnHeaders = << <<"a">>, <<"b">> >>],
    [DefaultOptions EXCEPT !.columnHeaders = << <<"b">>, <<" ">>, <<"a">> >>,
                           !.endOfTableWhitespace = R(8)],
    [DefaultOptions EXCEPT !.columnHeaders = << <<"a", "\n", "1">> >>],
    [DefaultOptions EXCEPT !.columnHeaders = << <<"1", "2">>, <<"2">> >>],
    [DefaultOptions EXCEPT !.minColumnCount = 0, !.maxColumnCount = 2],
    [DefaultOptions EXCEPT !.minColumnCount = 0, !.maxColumnCount = 0] }

\* a table as the detector builds it from a matrix of cell texts: a cell has
\* a bbox exactly when its text is not empty, indices are contiguous
CellOf(texts, r, c) ==
  [rowIndex |-> r - 1, columnIndex |-> c - 1, text |-> texts[r][c],
   bbox |-> IF texts[r][c] = <<>> THEN NULL
            ELSE [x |-> 10 * (c - 1), y |-> 10 * (Len(texts) - r), width |-> 4, height |-> 4]]
TableOf(pageIdx, texts) ==
  [pageIndex |-> pageIdx,
   bbox |-> [x |-> 0, y |-> 0, width |-> 10 * Len(texts[1]), height |-> 10 * Len(texts)],
   rows |-> [r \in DOMAIN texts |->
               [rowIndex |-> r - 1, cells |-> [c \in DOMAIN texts[r] |-> CellOf(texts, r, c)]]]]

\* at most this many pages in a document
MaxPages == 3

\* the cell texts of the tables a page can yield: the same header with
\* different bodies, a header that differs by surrounding whitespace only, a
\* different header, a header with a blank cell, a header over nothing, one
\* column instead of two
PageTexts ==
  { << <<<<"a">>, <<"b">>>>, <<<<"1">>, <<"2">>>> >>,
    << <<<<"a">>, <<"b">>>>, <<<<"2">>, <<>>>> >>,
    << <<<<"a", " ">>, <<"b">>>>, <<<<"1">>, <<"2">>>> >>,
    << <<<<"b">>, <<"a">>>>, <<<<"1">>, <<"2">>>> >>,
    << <<<<"a">>, <<>>>>, <<<<"1">>, <<"2">>>> >>,
    << <<<<"a">>, <<"b">>>> >>,
    << <<<<"1">>, <<"2">>>>, <<<<"a">>, <<"b">>>> >>,
    << <<<<"a">>>>, <<<<"1">>>> >>,
    << <<<<"a">>>> >> }

\* what extractTableFromGlyphs returned for the pages of a document, page by
\* page: no table, or a table that carries the index of its page
Documents ==
  UNION {{[i \in 1..n |-> IF d[i] = <<>> THEN NULL ELSE TableOf(i - 1, d[i])] :
            d \in [1..n -> PageTexts \cup {<<>>}]} : n \in 0..MaxPages}

\* at most this many rows under the first row of a table given to the mapper
MaxBodyRows == 2

Mary == <<"M", "a", "r", "y">>
\* first rows: the header-dedup scenario, repeated labels, a label that looks
\* like a generated key, a label that looks like a default name, a data-like
\* first row
HeaderTexts ==
  { << <<>>, Name, Name >>,
    << <<>>, Name, Age >>,
    << <<"a">>, <<"a">>, <<"a">> >>,
    << <<"a", "_", "2">>, <<"a">>, <<"a">> >>,
    << ColumnPrefix \o <<"2">>, <<>>, <<"b">> >>,
    << <<"1">>, <<"2", "0", "2", "2", "-", "0", "1">>, <<"x">> >> }
\* further rows: labels, numbers under "," and under ".", grouped numbers, a
\* date, blanks
BodyTexts ==
  { << <<"1">>, John, <<"5">> >>,
    << <<"2">>, Mary, <<>> >>,
    << <<"1", ",", "0">>, <<"x">>, <<"1", ".", "2", "3", "4", ",", "5", "6">> >>,
    << <<"2", ",", "5">>, <<>>, <<"1", ",", "2", "3", "4", ".", "5", "6">> >>,
    << <<>>, <<" ", "b">>, <<"-", "3">> >>,
    << <<"a">>, <<"b">>, <<>> >> }

\* the object-mapping scenario: the values "1,0", "2,5", "" in one column
ScenarioNumeric ==
  << << <<"a">>, <<"b">>, <<"c">> >>,
     << <<"1", ",", "0">>, <<"3">>, <<"x">> >>,
     << <<"2", ",", "5">>, <<"4">>, <<"y">> >>,
     << <<>>, <<"5">>, <<"z">> >> >>

MapperTexts ==
  {ScenarioNumeric}
    \cup UNION {{<<h>> \o b : h \in HeaderTexts, b \in [1..n -> BodyTexts]} : n \in 0..MaxBodyRows}

DecimalSeparators == {".", ","}

\* at most this many characters in a cell text given to parseNumericValue
MaxChars == 5

\* at most this many positions given to clusterPositions, each an integer
\* up to MaxPosition, under a tolerance up to MaxTolerance
MaxPositions == 4
MaxPosition == 4
MaxTolerance == 2

PositionLists == UNION {[1..n -> 0..MaxPosition] : n \in 0..MaxPositions}

NumberChars == {"1", ",", ".", " ", "-"}

\* the numeric-parsing scenarios
ScenarioGroupedComma == <<"1", ".", "2", "3", "4", ",", "5", "6">>
ScenarioGroupedDot == <<"1", ",", "2", "3", "4", ".", "5", "6">>

NumberTexts ==
  {ScenarioGroupedComma, ScenarioGroupedDot}
    \cup UNION {[1..n -> NumberChars] : n \in 0..MaxChars}


(***************************************************************************)
(* State                                                                   *)
(***************************************************************************)
VARIABLES
  glyphs,         \* extractTableFromGlyphs: the fragments of the page
  options,        \* the TableExtractionOptions
  pc,             \* the position in the running operation
  path,           \* "none", "guided" or "automatic": what produced table
  headerCells,    \* extractTableWithHeaders: the resolved labels, sorted
  columns,        \* the column bands [title, start, end]
  bodyGlyphs,     \* the sorted body glyphs, as positions in glyphs
  scanPos,        \* the position in bodyGlyphs of the next glyph of the scan
  rowsBuckets,    \* the rows of buckets [glyphs, bbox]
  lastRowBottom,
  rowCenters,     \* the automatic inference: the row bands, top row first
  columnCenters,  \* the column bands chosen by inferColumnsSmart
  buckets,        \* buckets[r][c]: the glyphs of a cell, as positions in glyphs
  colIndicesToUse, \* the columns kept as logical columns
  gridRows,       \* the rows built from the buckets, before trimming
  table,          \* the result of extractTableFromGlyphs, NULL for none
  threw,          \* extractTableFromGlyphs ended with an exception
  pageResults,    \* extractTables: the detector's result for each page
  pageIdx,        \* the position of the next page of "for (const page of pages)"
  pageTables,     \* the tables pushed so far
  merged,         \* mergeSequentialTables: the output tables so far
  mergeIdx,       \* the position in pageTables of the next table to merge
  mergedPages,    \* for each output table, the pages whose tables it holds
  rowsArray,      \* for each output table, the array object that its rows is
  mapTable,       \* tableToObjects: the table
  decimalSeparator, \* options.decimalSeparator
  objects,        \* the TableObjects returned, NULL before the call
  value,          \* parseNumericValue: the text of a cell
  parsed,         \* the number returned, NULL for null
  positions,      \* clusterPositions: the positions
  tolerance,
  bands           \* the centers returned

scanVars == <<headerCells, columns, bodyGlyphs, scanPos, rowsBuckets, lastRowBottom>>
bandVars == <<rowCenters, columnCenters>>
gridVars == <<buckets, colIndicesToUse, gridRows>>
detectorVars == <<glyphs, options, pc, path, scanVars, bandVars, gridVars, table, threw>>

mergeVars == <<pageResults, pageIdx, pageTables, merged, mergeIdx, mergedPages, rowsArray>>
numberVars == <<value, parsed>>
geometryVars == <<positions, tolerance, bands>>
mapperVars == <<mapTable, decimalSeparator, objects, numberVars, geometryVars>>

vars == <<detectorVars, mergeVars, mapperVars>>

\* what extractTables and tableToObjects leave alone
detectorRest == <<glyphs, options, path, scanVars, bandVars, gridVars, table, threw>>

DetectorIdle ==
  /\ path = "none"
  /\ headerCells = <<>>
  /\ columns = <<>>
  /\ bodyGlyphs = <<>>
  /\ scanPos = 1
  /\ rowsBuckets = <<>>
  /\ lastRowBottom = 0
  /\ rowCenters = <<>>
  /\ columnCenters = <<>>
  /\ buckets = <<>>
  /\ colIndicesToUse = <<>>
  /\ gridRows = <<>>
  /\ table = NULL
  /\ threw = FALSE

MergeIdle ==
  /\ pageResults = <<>>
  /\ pageIdx = 1
  /\ pageTables = <<>>
  /\ merged = <<>>
  /\ mergeIdx = 1
  /\ mergedPages = <<>>
  /\ rowsArray = <<>>

NumberIdle ==
  /\ value = <<>>
  /\ parsed = NULL

GeometryIdle ==
  /\ positions = <<>>
  /\ tolerance = 0
  /\ bands = <<>>

MapperIdle ==
  /\ mapTable = NULL
  /\ decimalSeparator = "."
  /\ objects = NULL
  /\ NumberIdle
  /\ GeometryIdle

Init ==
  /\ \/ glyphs \in Pages /\ options \in OptionSets
     \/ glyphs \in ScenarioPages /\ options \in ScenarioOptionSets
  /\ pc = "start"
  /\ DetectorIdle
  /\ MergeIdle
  /\ MapperIdle

(***************************************************************************)
(* extractTableFromGlyphs                                                  *)
(***************************************************************************)
\* if (glyphs.length === 0) return null
EmptyPage ==
  /\ pc = "start"
  /\ glyphs = <<>>
  /\ pc' = "done"
  /\ UNCHANGED <<glyphs, options, path, scanVars, bandVars, gridVars, table, threw,
               mergeVars, mapperVars>>

\* extractTableWithHeaders up to the body scan; a failure falls back to the
\* automatic inference
MatchHeaders ==
  /\ pc = "start"
  /\ glyphs # <<>>
  /\ options.columnHeaders # <<>>
  /\ LET m == matchHeaders(glyphs, options.columnHeaders,
                           [failed |-> FALSE, used |-> {}, headerCells |-> <<>>])
         sorted == sortHeaderCells(m.headerCells)
     IN  IF nonSpaceGlyphs(glyphs) = <<>> \/ m.failed \/ m.headerCells = <<>>
         THEN /\ pc' = "automatic"
              /\ UNCHANGED scanVars
         ELSE /\ pc' = "scan"
              /\ headerCells' = sorted
              /\ columns' = [i \in DOMAIN sorted |->
                               [title |-> sorted[i].title,
                                start |-> sorted[i].bbox.x,
                                end |-> sorted[i].bbox.x + sorted[i].bbox.width]]
              /\ bodyGlyphs' = bodyGlyphsOf(glyphs, headerBottomOf(sorted))
              /\ scanPos' = 1
              /\ rowsBuckets' = <<>>
              /\ lastRowBottom' = headerBottomOf(sorted)
  /\ UNCHANGED <<glyphs, options, path, bandVars, gridVars, table, threw,
               mergeVars, mapperVars>>

\* gap > endWhitespace
GapExceeds(gap, endWhitespace) ==
  endWhitespace # INFINITY /\ RLt(endWhitespace, R(gap))

\* a faulty variant of ScanStep: the center is compared with the top edge of
\* the previous row's box
ScanStepFromTop ==
  /\ pc = "scan"
  /\ scanPos <= Len(bodyGlyphs)
  /\ LET glyph == glyphs[bodyGlyphs[scanPos]]
         overlaps == overlapsOf(columns, glyph)
         colIdx == overlaps[1]
         hasRow == rowsBuckets # <<>>
         prevRow == rowsBuckets[Len(rowsBuckets)][1].bbox
         \* cy < prevRow.y - yTolerance
         movedDown == 2 * glyph.bbox.y + glyph.bbox.height
                        < 2 * (prevRow.y + prevRow.height - options.yTolerance)
         newRow == ~hasRow \/ movedDown
         gap == prevRow.y - (glyph.bbox.y + glyph.bbox.height)
         started == IF newRow
                    THEN Append(rowsBuckets,
                                [c \in DOMAIN columns |-> [glyphs |-> <<>>, bbox |-> glyph.bbox]])
                    ELSE rowsBuckets
         target == Len(started)
         bucket == started[target][colIdx]
     IN  IF overlaps = <<>>
         THEN \* continue
              /\ scanPos' = scanPos + 1
              /\ UNCHANGED <<pc, columns, rowsBuckets, lastRowBottom>>
         ELSE IF Len(overlaps) > 1 \/ (newRow /\ hasRow /\ GapExceeds(gap, options.endOfTableWhitespace))
         THEN \* break
              /\ pc' = "build"
              /\ UNCHANGED <<scanPos, columns, rowsBuckets, lastRowBottom>>
         ELSE /\ rowsBuckets' =
                   [started EXCEPT ![target][colIdx] =
                      [glyphs |-> Append(bucket.glyphs, bodyGlyphs[scanPos]),
                       bbox |-> unionRects(bucket.bbox, glyph.bbox)]]
              /\ columns' =
                   [columns EXCEPT ![colIdx].start = Min(@, glyph.bbox.x),
                                   ![colIdx].end = Max(@, glyph.bbox.x + glyph.bbox.width)]
              /\ lastRowBottom' = Min(lastRowBottom, glyph.bbox.y)
              /\ scanPos' = scanPos + 1
              /\ pc' = pc
  /\ UNCHANGED <<glyphs, options, path, headerCells, bodyGlyphs, bandVars, gridVars, table, threw,
               mergeVars, mapperVars>>

\* a faulty variant of ScanStep: the column bands keep the extent of their
\* header anchors
ScanStepFixedBands ==
  /\ pc = "scan"
  /\ scanPos <= Len(bodyGlyphs)
  /\ LET glyph == glyphs[bodyGlyphs[scanPos]]
         overlaps == overlapsOf(columns, glyph)
         colIdx == overlaps[1]
         hasRow == rowsBuckets # <<>>
         prevRow == rowsBuckets[Len(rowsBuckets)][1].bbox
         \* cy < prevRow.y - yTolerance
         movedDown == 2 * glyph.bbox.y + glyph.bbox.height
                        < 2 * (prevRow.y - options.yTolerance)
         newRow == ~hasRow \/ movedDown
         gap == prevRow.y - (glyph.bbox.y + glyph.bbox.height)
         started == IF newRow
                    THEN Append(rowsBuckets,
                                [c \in DOMAIN columns |-> [glyphs |-> <<>>, bbox |-> glyph.bbox]])
                    ELSE rowsBuckets
         target == Len(started)
         bucket == started[target][colIdx]
     IN  IF overlaps = <<>>
         THEN \* continue
              /\ scanPos' = scanPos + 1
              /\ UNCHANGED <<pc, columns, rowsBuckets, lastRowBottom>>
         ELSE IF Len(overlaps) > 1 \/ (newRow /\ hasRow /\ GapExceeds(gap, options.endOfTableWhitespace))
         THEN \* break
              /\ pc' = "build"
              /\ UNCHANGED <<scanPos, columns, rowsBuckets, lastRowBottom>>
         ELSE /\ rowsBuckets' =
                   [started EXCEPT ![target][colIdx] =
                      [glyphs |-> Append(bucket.glyphs, bodyGlyphs[scanPos]),
                       bbox |-> unionRects(bucket.bbox, glyph.bbox)]]
              /\ columns' = columns
              /\ lastRowBottom' = Min(lastRowBottom, glyph.bbox.y)
              /\ scanPos' = scanPos + 1
              /\ pc' = pc
  /\ UNCHANGED <<glyphs, options, path, headerCells, bodyGlyphs, bandVars, gridVars, table, threw,
               mergeVars, mapperVars>>

\* one iteration of "for (const glyph of bodyGlyphs)"
ScanStep ==
  /\ pc = "scan"
  /\ scanPos <= Len(bodyGlyphs)
  /\ LET glyph == glyphs[bodyGlyphs[scanPos]]
         overlaps == overlapsOf(columns, glyph)
         colIdx == overlaps[1]
         hasRow == rowsBuckets # <<>>
         prevRow == rowsBuckets[Len(rowsBuckets)][1].bbox
         \* cy < prevRow.y - yTolerance
         movedDown == 2 * glyph.bbox.y + glyph.bbox.height
                        < 2 * (prevRow.y - options.yTolerance)
         newRow == ~hasRow \/ movedDown
         gap == prevRow.y - (glyph.bbox.y + glyph.bbox.height)
         started == IF newRow
                    THEN Append(rowsBuckets,
                                [c \in DOMAIN columns |-> [glyphs |-> <<>>, bbox |-> glyph.bbox]])
                    ELSE rowsBuckets
         target == Len(started)
         bucket == started[target][colIdx]
     IN  IF overlaps = <<>>
         THEN \* continue
              /\ scanPos' = scanPos + 1
              /\ UNCHANGED <<pc, columns, rowsBuckets, lastRowBottom>>
         ELSE IF Len(overlaps) > 1 \/ (newRow /\ hasRow /\ GapExceeds(gap, options.endOfTableWhitespace))
         THEN \* break
              /\ pc' = "build"
              /\ UNCHANGED <<scanPos, columns, rowsBuckets, lastRowBottom>>
         ELSE /\ rowsBuckets' =
                   [started EXCEPT ![target][colIdx] =
                      [glyphs |-> Append(bucket.glyphs, bodyGlyphs[scanPos]),
                       bbox |-> unionRects(bucket.bbox, glyph.bbox)]]
              /\ columns' =
                   [columns EXCEPT ![colIdx].start = Min(@, glyph.bbox.x),
                                   ![colIdx].end = Max(@, glyph.bbox.x + glyph.bbox.width)]
              /\ lastRowBottom' = Min(lastRowBottom, glyph.bbox.y)
              /\ scanPos' = scanPos + 1
              /\ pc' = pc
  /\ UNCHANGED <<glyphs, options, path, headerCells, bodyGlyphs, bandVars, gridVars, table, threw,
               mergeVars, mapperVars>>

\* extractTableWithHeaders after the body scan
GuidedFinish ==
  /\ pc = "build" \/ (pc = "scan" /\ scanPos > Len(bodyGlyphs))
  /\ IF rowsBuckets = <<>>
     THEN /\ pc' = "automatic"
          /\ UNCHANGED <<path, table>>
     ELSE /\ pc' = "done"
          /\ path' = "guided"
          /\ table' = [pageIndex |-> 0,
                       bbox |-> guidedBbox(headerCells, headerBottomOf(headerCells), lastRowBottom),
                       rows |-> guidedRows(glyphs, rowsBuckets)]
  /\ UNCHANGED <<glyphs, options, scanVars, bandVars, gridVars, threw,
               mergeVars, mapperVars>>

\* the automatic inference, run when no label is configured or after the
\* header-guided extraction gave up: steps 1 and 2, the row and column bands
InferBands ==
  /\ pc = "automatic" \/ (pc = "start" /\ glyphs # <<>> /\ options.columnHeaders = <<>>)
  /\ LET rows == inferRows(glyphs, R(options.yTolerance))
         cols == inferColumnsSmart(glyphs, rows, R(options.xTolerance),
                                   options.minColumnCount, options.maxColumnCount)
     IN  IF rows = <<>>
         THEN /\ pc' = "done"
              /\ UNCHANGED <<bandVars, threw>>
         ELSE IF inferColumnsSmartThrows(glyphs, R(options.xTolerance),
                                         options.minColumnCount, options.maxColumnCount)
         THEN /\ pc' = "done"
              /\ threw' = TRUE
              /\ rowCenters' = rows
              /\ UNCHANGED columnCenters
         ELSE /\ pc' = IF cols = <<>> THEN "done" ELSE "grid"
              /\ rowCenters' = rows
              /\ columnCenters' = cols
              /\ UNCHANGED threw
  /\ UNCHANGED <<glyphs, options, path, scanVars, gridVars, table,
               mergeVars, mapperVars>>

\* steps 3 to 6: the buckets, the logical columns and the rows of cells
BuildGrid ==
  /\ pc = "grid"
  /\ pc' = "filter"
  /\ buckets' = assignBuckets(glyphs, rowCenters, columnCenters)
  /\ colIndicesToUse' = columnsToUse(getFrequentlyUsedColumnIndices(buckets'),
                                     getLogicalColumnIndices(buckets'), columnCenters)
  /\ gridRows' = buildRows(glyphs, buckets', colIndicesToUse')
  /\ UNCHANGED <<glyphs, options, path, scanVars, bandVars, table, threw,
               mergeVars, mapperVars>>

\* the leading empty rows are dropped, the header filter picks the columns
FilterGrid ==
  /\ pc = "filter"
  /\ pc' = "done"
  /\ table' = trimmedTable(0, glyphs, trimLeadingEmptyRows(gridRows))
  /\ path' = IF table' = NULL THEN "none" ELSE "automatic"
  /\ UNCHANGED <<glyphs, options, scanVars, bandVars, gridVars, threw,
               mergeVars, mapperVars>>

Next ==
  \/ EmptyPage
  \/ MatchHeaders
  \/ ScanStep
  \/ GuidedFinish
  \/ InferBands
  \/ BuildGrid
  \/ FilterGrid

\* extractTableFromGlyphs on one page
Spec == Init /\ [][Next]_vars

(***************************************************************************)
(* extractTables: the pages in order, then mergeSequentialTables           *)
(***************************************************************************)
InitMerge ==
  /\ glyphs = <<>>
  /\ options = DefaultOptions
  /\ DetectorIdle
  /\ pageResults \in Documents
  /\ pageIdx = 1
  /\ pageTables = <<>>
  /\ merged = <<>>
  /\ mergeIdx = 1
  /\ mergedPages = <<>>
  /\ rowsArray = <<>>
  /\ pc = "pages"
  /\ MapperIdle

\* one iteration of "for (const page of pages)": if (table) pageTables.push(table)
ExtractPage ==
  /\ pc = "pages"
  /\ pageIdx <= Len(pageResults)
  /\ pageTables' = IF pageResults[pageIdx] = NULL THEN pageTables
                   ELSE Append(pageTables, pageResults[pageIdx])
  /\ pageIdx' = pageIdx + 1
  /\ UNCHANGED <<pc, pageResults, merged, mergeIdx, mergedPages, rowsArray,
               detectorRest, mapperVars>>

\* the call of mergeSequentialTables: if (tables.length === 0) return []
StartMerge ==
  /\ pc = "pages"
  /\ pageIdx > Len(pageResults)
  /\ pc' = IF pageTables = <<>> THEN "merged" ELSE "merge"
  /\ UNCHANGED <<pageResults, pageIdx, pageTables, merged, mergeIdx, mergedPages, rowsArray,
               detectorRest, mapperVars>>

\* a faulty variant of normalizedRowsArray: the rows array of the input table
\* is reused
sharedRowsArray(i) == i

\* the array object that is the rows of normalizeTableRows(tables[i]): 0 for
\* an array of its own, built by table.rows.map(...), or the position in
\* pageTables of the input table whose rows array it is
normalizedRowsArray(i) == 0

\* the output table an iteration appended rows to: last.rows.push(...)
mergeTarget(before, after) ==
  IF \E i \in DOMAIN before : after[i] # before[i]
  THEN CHOOSE i \in DOMAIN before : after[i] # before[i]
  ELSE Len(before)

\* one iteration of "for (const table of tables)"
MergeStep ==
  /\ pc = "merge"
  /\ mergeIdx <= Len(pageTables)
  /\ merged' = mergeOne(merged, pageTables[mergeIdx])
  /\ mergedPages' =
       IF Len(merged') > Len(merged)
       THEN Append(mergedPages, <<pageTables[mergeIdx].pageIndex>>)
       ELSE [mergedPages EXCEPT ![mergeTarget(merged, merged')] =
               Append(@, pageTables[mergeIdx].pageIndex)]
  /\ rowsArray' = IF Len(merged') > Len(merged)
                  THEN Append(rowsArray, normalizedRowsArray(mergeIdx))
                  ELSE rowsArray
  \* last.rows.push(...) writes to the array that last.rows is
  /\ pageTables' =
       IF Len(merged') = Len(merged) /\ rowsArray[mergeTarget(merged, merged')] # 0
       THEN [pageTables EXCEPT ![rowsArray[mergeTarget(merged, merged')]].rows =
               merged'[mergeTarget(merged, merged')].rows]
       ELSE pageTables
  /\ mergeIdx' = mergeIdx + 1
  /\ pc' = IF mergeIdx' > Len(pageTables) THEN "merged" ELSE "merge"
  /\ UNCHANGED <<pageResults, pageIdx, detectorRest, mapperVars>>

NextMerge ==
  \/ ExtractPage
  \/ StartMerge
  \/ MergeStep

SpecMerge == InitMerge /\ [][NextMerge]_vars

(***************************************************************************)
(* extractTablesAsObjects: tableToObjects on one table                     *)
(***************************************************************************)
InitObjects ==
  /\ glyphs = <<>>
  /\ options = DefaultOptions
  /\ DetectorIdle
  /\ MergeIdle
  /\ mapTable \in {TableOf(0, texts) : texts \in MapperTexts}
  /\ decimalSeparator \in DecimalSeparators
  /\ objects = NULL
  /\ NumberIdle
  /\ GeometryIdle
  /\ pc = "map"

TableToObjects ==
  /\ pc = "map"
  /\ pc' = "mapped"
  /\ objects' = tableToObjects(mapTable, decimalSeparator)
  /\ UNCHANGED <<mapTable, decimalSeparator, numberVars, geometryVars, detectorRest, mergeVars>>

NextObjects == TableToObjects

SpecObjects == InitObjects /\ [][NextObjects]_vars

(***************************************************************************)
(* parseNumericValue on one cell text                                      *)
(***************************************************************************)
InitNumber ==
  /\ glyphs = <<>>
  /\ options = DefaultOptions
  /\ DetectorIdle
  /\ MergeIdle
  /\ mapTable = NULL
  /\ objects = NULL
  /\ value \in NumberTexts
  /\ decimalSeparator \in DecimalSeparators
  /\ parsed = NULL
  /\ GeometryIdle
  /\ pc = "parse"

ParseNumericValue ==
  /\ pc = "parse"
  /\ pc' = "parsed"
  /\ parsed' = parseNumericValue(value, decimalSeparator)
  /\ UNCHANGED <<value, decimalSeparator, mapTable, objects, geometryVars,
               detectorRest, mergeVars>>

NextNumber == ParseNumericValue

SpecNumber == InitNumber /\ [][NextNumber]_vars

(***************************************************************************)
(* clusterPositions on one list of positions                               *)
(***************************************************************************)
InitPositions ==
  /\ glyphs = <<>>
  /\ options = DefaultOptions
  /\ DetectorIdle
  /\ MergeIdle
  /\ mapTable = NULL
  /\ decimalSeparator = "."
  /\ objects = NULL
  /\ NumberIdle
  /\ positions \in PositionLists
  /\ tolerance \in 0..MaxTolerance
  /\ bands = <<>>
  /\ pc = "cluster"

ClusterPositions ==
  /\ pc = "cluster"
  /\ pc' = "clustered"
  /\ bands' = clusterPositions([i \in DOMAIN positions |-> R(positions[i])], R(tolerance))
  /\ UNCHANGED <<positions, tolerance, mapTable, decimalSeparator, objects, numberVars,
               detectorRest, mergeVars>>

NextPositions == ClusterPositions

SpecPositions == InitPositions /\ [][NextPositions]_vars

(***************************************************************************)
(* Any of the three entry points                                           *)
(***************************************************************************)
InitAll == Init \/ InitMerge \/ InitObjects

NextAll == Next \/ NextMerge \/ NextObjects

SpecAll == InitAll /\ [][NextAll]_vars

(***************************************************************************)
(* Properties of the tables: the detector and the cross-page merge         *)
(***************************************************************************)
\* all rows have as many cells as the first, and the indices are positions
Rectangular(t) ==
  \A r \in DOMAIN t.rows :
    /\ Len(t.rows[r].cells) = Len(t.rows[1].cells)
    /\ t.rows[r].rowIndex = r - 1
    /\ \A c \in DOMAIN t.rows[r].cells :
         /\ t.rows[r].cells[c].rowIndex = r - 1
         /\ t.rows[r].cells[c].columnIndex = c - 1

\* C1: every table returned by extractTableFromGlyphs, on the automatic and on
\* the header-guided path, and every table in the output of
\* mergeSequentialTables is rectangular and contiguously indexed: all rows
\* have the same number of cells, the row at position r has rowIndex r and so
\* has each of its cells, the cell at position c has columnIndex c.
C1_Rectangular ==
  /\ table # NULL => Rectangular(table)
  /\ \A i \in DOMAIN merged : Rectangular(merged[i])

\* C1, reached: an output table of the merge holds the tables of two pages, one
\* row of the second dropped
C1_Witness ==
  /\ pc = "merged"
  /\ \E i \in DOMAIN merged :
       /\ Len(mergedPages[i]) = 2
       /\ Len(merged[i].rows) = 3
       /\ Len(merged[i].rows[1].cells) = 2

\* the texts of the cells of a row
RowTexts(row) == [c \in DOMAIN row.cells |-> row.cells[c].text]

EmptyCell(cell) == cell.text = <<>> /\ cell.bbox = NULL

\* C2: in every cell of a produced table bbox is null if and only if text is
\* the empty string, and a position that received no fragment is a cell with
\* text "" and bbox null, never omitted; the Name / Age / City page under
\* tolerances 2 yields 2 rows of 3 cells, the City cell of row 1 empty.
C2_BboxNullIffEmptyText ==
  /\ table # NULL =>
       \A r \in DOMAIN table.rows : \A c \in DOMAIN table.rows[r].cells :
         (table.rows[r].cells[c].bbox = NULL) <=> (table.rows[r].cells[c].text = <<>>)
  /\ \A r \in DOMAIN gridRows :
       /\ Len(gridRows[r].cells) = Len(colIndicesToUse)
       /\ \A l \in DOMAIN colIndicesToUse :
            buckets[r][colIndicesToUse[l]] = <<>> => EmptyCell(gridRows[r].cells[l])
  /\ path = "guided" =>
       /\ Len(table.rows) = Len(rowsBuckets)
       /\ \A r \in DOMAIN rowsBuckets :
            /\ Len(table.rows[r].cells) = Len(columns)
            /\ \A c \in DOMAIN columns :
                 rowsBuckets[r][c].glyphs = <<>> => EmptyCell(table.rows[r].cells[c])
  /\ (/\ glyphs = ScenarioGrid
      /\ options.xTolerance = 2
      /\ options.yTolerance = 2
      /\ options.columnHeaders = <<>>
      /\ pc = "done") =>
       /\ table # NULL
       /\ [r \in DOMAIN table.rows |-> RowTexts(table.rows[r])]
            = << <<Name, Age, City>>, <<John, <<"5">>, <<>>>> >>
       /\ table.rows[2].cells[3].bbox = NULL

\* C2, reached: the Name / Age / City page has become a table whose row 1 ends
\* with the empty City cell
C2_Witness ==
  /\ glyphs = ScenarioGrid
  /\ options.xTolerance = 2
  /\ pc = "done"
  /\ table # NULL
  /\ Len(table.rows) = 2
  /\ EmptyCell(table.rows[2].cells[3])

\* rows[0]?.cells.length ?? 0, the column count of a table
FirstRowWidth(t) == IF t.rows = <<>> THEN 0 ELSE Len(t.rows[1].cells)

\* the output tables before the last are left alone by an iteration
OthersKept == \A i \in 1..(Len(merged) - 1) : merged'[i] = merged[i]

\* C3: while the page tables are processed in order, the incoming table is
\* appended to the running last output table if and only if both have the
\* same non-zero column count; otherwise it starts a new output table.
C3_MergeIffSameColumnCount ==
  [][(MergeStep /\ merged # <<>>) =>
       IF /\ FirstRowWidth(merged[Len(merged)]) = FirstRowWidth(pageTables[mergeIdx])
          /\ FirstRowWidth(merged[Len(merged)]) # 0
       THEN /\ Len(merged') = Len(merged)
            /\ OthersKept
            /\ Len(merged'[Len(merged)].rows) >= Len(merged[Len(merged)].rows)
            /\ SubSeq(merged'[Len(merged)].rows, 1, Len(merged[Len(merged)].rows))
                 = merged[Len(merged)].rows
       ELSE /\ Len(merged') = Len(merged) + 1
            /\ OthersKept
            /\ merged'[Len(merged)] = merged[Len(merged)]
            /\ [r \in DOMAIN merged'[Len(merged')].rows |->
                  RowTexts(merged'[Len(merged')].rows[r])]
                 = [r \in DOMAIN pageTables[mergeIdx].rows |->
                      RowTexts(pageTables[mergeIdx].rows[r])]]_vars

\* C3, reached: of three page tables the second was appended to the first
\* and the third started an output table of its own
C3_Witness ==
  /\ pc = "merged"
  /\ Len(pageTables) = 3
  /\ Len(merged) = 2
  /\ mergedPages = << <<0, 1>>, <<2>> >>
  /\ FirstRowWidth(merged[1]) # FirstRowWidth(merged[2])


\* the first-row texts of a table, trimmed
TrimmedHeader(t) == [c \in DOMAIN t.rows[1].cells |-> Trim(t.rows[1].cells[c].text)]

\* the first rows of two tables hold the same labels, not all blank
RepeatsHeader(a, b) ==
  /\ TrimmedHeader(a) = TrimmedHeader(b)
  /\ \E c \in DOMAIN TrimmedHeader(a) : TrimmedHeader(a)[c] # <<>>

\* an iteration of the merge meets a running last table of the incoming width
MergesCompatible ==
  /\ MergeStep
  /\ merged # <<>>
  /\ FirstRowWidth(merged[Len(merged)]) = FirstRowWidth(pageTables[mergeIdx])

\* the running last table has grown by the rows of the incoming table from
\* its row number from on
AppendedFrom(from) ==
  /\ Len(merged'[Len(merged)].rows)
       = Len(merged[Len(merged)].rows) + Len(pageTables[mergeIdx].rows) - (from - 1)
  /\ \A r \in from..Len(pageTables[mergeIdx].rows) :
       RowTexts(merged'[Len(merged)].rows[Len(merged[Len(merged)].rows) + r - (from - 1)])
         = RowTexts(pageTables[mergeIdx].rows[r])

\* C4: merging two compatible tables A then B yields len(A) + len(B) - 1 rows,
\* the first row of B dropped, when the first-row texts of A and B are equal
\* cell by cell once trimmed of surrounding whitespace (and not all empty), and
\* len(A) + len(B) rows otherwise.
C4_MergeArithmetic ==
  [][MergesCompatible =>
       IF RepeatsHeader(merged[Len(merged)], pageTables[mergeIdx])
       THEN AppendedFrom(2)
       ELSE AppendedFrom(1)]_vars

\* C4 as stated: len(A) + len(B) - 1 rows when the first-row texts are
\* identical cell by cell, len(A) + len(B) rows when they differ.
C4_IdenticalTexts ==
  [][MergesCompatible =>
       IF RowTexts(merged[Len(merged)].rows[1]) = RowTexts(pageTables[mergeIdx].rows[1])
       THEN AppendedFrom(2)
       ELSE AppendedFrom(1)]_vars

\* C4, reached: two page tables whose first rows differ by a trailing space
\* have become one table, one row short of the sum
C4_Witness ==
  /\ pc = "merged"
  /\ Len(pageTables) = 2
  /\ Len(merged) = 1
  /\ RowTexts(pageTables[1].rows[1]) # RowTexts(pageTables[2].rows[1])
  /\ TrimmedHeader(pageTables[1]) = TrimmedHeader(pageTables[2])
  /\ Len(merged[1].rows) = Len(pageTables[1].rows) + Len(pageTables[2].rows) - 1

\* the pages whose tables an output table holds
PagesOf(run) == {run[k] : k \in DOMAIN run}

\* C5: the merge concatenates only tables that follow one another in the list
\* of page tables: two page tables are merged into one output table only if
\* every page between their pages yielded no table or a table merged into
\* that same output table; a page without a table does not separate them.
C5_AdjacentPageTables ==
  \A i \in DOMAIN mergedPages :
    \A p \in PagesOf(mergedPages[i]), q \in PagesOf(mergedPages[i]) :
      \A between \in (p + 1)..(q - 1) :
        pageResults[between + 1] = NULL \/ between \in PagesOf(mergedPages[i])

\* C5 as stated: two page tables are merged into one output table only if no
\* page lies between their pages.
C5_ConsecutivePages ==
  \A i \in DOMAIN mergedPages :
    \A k \in 1..(Len(mergedPages[i]) - 1) :
      mergedPages[i][k + 1] = mergedPages[i][k] + 1

\* C5, reached: the tables of pages 0 and 2 are one output table, page 1
\* having yielded no table
C5_Witness ==
  /\ pc = "merged"
  /\ Len(pageResults) = 3
  /\ pageResults[2] = NULL
  /\ mergedPages = << <<0, 2>> >>


(***************************************************************************)
(* Properties of the mapping to objects                                    *)
(***************************************************************************)
\* the trimmed text of the cell in row r and column c of the mapped table
CellText(r, c) == Trim(mapTable.rows[r].cells[c].text)

\* YYYY-MM
IsYearMonth(s) ==
  /\ Len(s) = 7
  /\ \A i \in {1, 2, 3, 4, 6, 7} : s[i] \in Digits
  /\ s[5] = "-"

\* the non-empty cells of row r, and those that are numeric under the
\* decimal separator or match YYYY-MM
FilledCells(r) == {c \in DOMAIN mapTable.rows[r].cells : CellText(r, c) # <<>>}
NumericOrDateCells(r) ==
  {c \in FilledCells(r) :
     IsYearMonth(CellText(r, c)) \/ parseNumericValue(CellText(r, c), decimalSeparator) # NULL}

\* at least max(2, ceil(0.5 n)) of the n non-empty cells are numeric or dates
DataRow(r) ==
  /\ 2 * Cardinality(NumericOrDateCells(r)) >= Cardinality(FilledCells(r))
  /\ Cardinality(NumericOrDateCells(r)) >= 2

\* the rows before the first data row
LeadingRows == {r \in DOMAIN mapTable.rows : \A q \in 1..r : ~DataRow(q)}

\* the header-row count: at least 1
HeaderRows == IF LeadingRows = {} THEN 1 ELSE Cardinality(LeadingRows)

\* the label of column c: its non-blank cells in the header rows, joined by
\* single spaces
MergedLabel(c) ==
  Trim(CollapseWhitespace(
    Join([i \in DOMAIN SelectIdx(HeaderRows, LAMBDA r : CellText(r, c) # <<>>) |->
            CellText(SelectIdx(HeaderRows, LAMBDA r : CellText(r, c) # <<>>)[i], c)],
         <<" ">>)))

\* the key of position i of the labels h: columnN for a blank label, the
\* label itself at its first occurrence, label_k at its k-th
BaseKey(h, i) == IF h[i] = <<>> THEN ColumnPrefix \o NatToStr(i) ELSE h[i]
Occurrence(h, i) == Cardinality({j \in 1..i : BaseKey(h, j) = BaseKey(h, i)})
KeysOf(h) ==
  [i \in DOMAIN h |->
     IF Occurrence(h, i) = 1 THEN BaseKey(h, i)
     ELSE BaseKey(h, i) \o <<"_">> \o NatToStr(Occurrence(h, i))]

\* the rows after the header rows
BodyRowSet == (HeaderRows + 1)..Len(mapTable.rows)

\* every non-empty body cell of column c parses, and one is non-empty
NumericColumn(c) ==
  /\ \A r \in BodyRowSet :
       CellText(r, c) = <<>> \/ parseNumericValue(CellText(r, c), decimalSeparator) # NULL
  /\ \E r \in BodyRowSet : CellText(r, c) # <<>>

\* what the cell in row r and column c maps to
ValueOf(r, c) ==
  IF NumericColumn(c)
  THEN IF CellText(r, c) = <<>> THEN UNDEFINED
       ELSE NumberValue(parseNumericValue(CellText(r, c), decimalSeparator))
  ELSE StringValue(CellText(r, c))

\* C6 as stated: the headers produced by tableToObjects are pairwise distinct
\* strings, so every record holds exactly one entry per table column.
C6_DistinctHeaders ==
  objects # NULL =>
    /\ \A c \in DOMAIN objects.headers : \A d \in DOMAIN objects.headers :
         c # d => objects.headers[c] # objects.headers[d]
    /\ \A i \in DOMAIN objects.rows :
         Cardinality(DOMAIN objects.rows[i]) = Len(mapTable.rows[1].cells)

BuiltFrom(record, r) ==
  /\ DOMAIN record = {objects.headers[c] : c \in DOMAIN objects.headers}
  /\ \A k \in DOMAIN record :
       \E c \in DOMAIN objects.headers : objects.headers[c] = k /\ record[k] = ValueOf(r, c)

C9_HeaderRowCount ==
  objects # NULL =>
    /\ HeaderRows >= 1
    /\ HeaderRows <= Len(mapTable.rows)
    /\ HeaderRows = countHeaderRows(mapTable.rows, decimalSeparator)
    /\ Len(objects.rows) = Len(mapTable.rows) - HeaderRows

\* C9, reached: the first row of the mapped table is a data row and is the
\* one header row all the same
C9_Witness ==
  /\ objects # NULL
  /\ DataRow(1)
  /\ Len(mapTable.rows) = 3
  /\ Len(objects.rows) = 2

\* C10 as stated: a column is numeric iff every non-empty body cell parses
\* under the separator and one body cell is non-empty; in a numeric column a
\* blank cell maps to an absent value and a parseable cell to its number, in
\* a non-numeric column every cell maps to its raw trimmed text; the values
\* "1,0", "2,5", "" under separator "," give 1.0, 2.5, absent.
C10_RowMapping ==
  /\ objects # NULL =>
       \A i \in DOMAIN objects.rows : \A c \in DOMAIN objects.headers :
         /\ objects.headers[c] \in DOMAIN objects.rows[i]
         /\ objects.rows[i][objects.headers[c]] = ValueOf(i + HeaderRows, c)
  /\ (objects # NULL /\ mapTable = TableOf(0, ScenarioNumeric) /\ decimalSeparator = ",") =>
       [i \in DOMAIN objects.rows |-> objects.rows[i][<<"a">>]]
         = << NumberValue(Rat(1, 1)), NumberValue(Rat(5, 2)), UNDEFINED >>

(***************************************************************************)
(* Properties of parseNumericValue                                         *)
(***************************************************************************)
\* s[i] is a grouping mark: the mark, exactly three digits, and then a mark,
\* the decimal separator or the end of the string
IsGroupingMark(s, i, mark, separator) ==
  /\ s[i] = mark
  /\ i + 3 <= Len(s)
  /\ \A j \in (i + 1)..(i + 3) : s[j] \in Digits
  /\ (i + 3 < Len(s)) => s[i + 4] \in {mark, separator}

\* s from position i on, read left to right: grouping marks dropped, the
\* decimal separator written as "."
RECURSIVE DecimalLiteral(_, _, _, _)
DecimalLiteral(s, i, mark, separator) ==
  IF i > Len(s) THEN <<>>
  ELSE (IF IsGroupingMark(s, i, mark, separator) THEN <<>>
        ELSE IF s[i] = separator THEN <<".">> ELSE <<s[i]>>)
         \o DecimalLiteral(s, i + 1, mark, separator)

GroupingMarkOf(separator) == IF separator = "," THEN "." ELSE ","

\* C11: parseNumericValue reads "1.234,56" under "," and "1,234.56" under "."
\* as 1234.56, gives null for a blank text under either separator, removes a
\* grouping mark only where exactly three digits and then a grouping mark, the
\* decimal separator or the end follow, and gives null when what is left is
\* not a finite number; under "." a comma that is left makes the result null.
C11_ParseNumericValue ==
  pc = "parsed" =>
    LET stripped == StripWhitespace(value)
        mark == GroupingMarkOf(decimalSeparator)
    IN  /\ (value = ScenarioGroupedComma /\ decimalSeparator = ",") => parsed = Rat(123456, 100)
        /\ (value = ScenarioGroupedDot /\ decimalSeparator = ".") => parsed = Rat(123456, 100)
        /\ (\A i \in DOMAIN value : value[i] \in Whitespace) => parsed = NULL
        /\ (\E i \in DOMAIN value : value[i] \notin Whitespace) =>
             parsed = StrToNumber(DecimalLiteral(stripped, 1, mark, decimalSeparator))
        /\ (/\ decimalSeparator = "."
            /\ \E i \in DOMAIN stripped :
                 stripped[i] = "," /\ ~IsGroupingMark(stripped, i, ",", "."))
             => parsed = NULL
        /\ parsed # NULL => parsed.d > 0

\* both scenarios have been parsed, and a mark before four digits was kept
C11_Witness ==
  /\ pc = "parsed"
  /\ value = ScenarioGroupedComma
  /\ decimalSeparator = ","
  /\ parsed = Rat(30864, 25)

C11_WitnessKept ==
  /\ pc = "parsed"
  /\ value = <<",", "1", "1", "1", "1">>
  /\ decimalSeparator = "."
  /\ parsed = NULL

(***************************************************************************)
(* Properties of extractTableFromGlyphs: the two paths                     *)
(***************************************************************************)
\* the non-blank parts of all the labels, in order
RECURSIVE LabelParts(_)
LabelParts(headers) ==
  IF headers = <<>> THEN <<>> ELSE headerParts(headers[1]) \o LabelParts(Tail(headers))

\* some part is wanted more often than there are fragments with that trimmed text
PartUnmatched(g, headers) ==
  LET parts == LabelParts(headers)
  IN  \E i \in DOMAIN parts :
        Cardinality({j \in DOMAIN parts : parts[j] = parts[i]})
          > Cardinality({k \in DOMAIN g : Trim(g[k].text) = parts[i]})

\* the header-guided extraction gives no table
GuidedFails ==
  \/ PartUnmatched(glyphs, options.columnHeaders)
  \/ LabelParts(options.columnHeaders) = <<>>
  \/ rowsBuckets = <<>>

\* what extractTableFromGlyphs returns for the same fragments when no label is
\* configured
WithoutHeaders(g, o) ==
  LET rows == inferRows(g, R(o.yTolerance))
      cols == inferColumnsSmart(g, rows, R(o.xTolerance), o.minColumnCount, o.maxColumnCount)
  IN  automaticTable(0, g, rows, cols)

\* C12: with columnHeaders configured, a failed header-guided extraction (a
\* part without an unused fragment of that trimmed text, no label with a part,
\* no body row) ends with exactly the table the automatic inference gives for
\* the same fragments without labels; a successful one ends with its own
\* table, and the automatic inference has not run.
C12_FallbackIsAutomatic ==
  (pc = "done" /\ glyphs # <<>> /\ options.columnHeaders # <<>> /\ ~threw) =>
    /\ (PartUnmatched(glyphs, options.columnHeaders)
          \/ LabelParts(options.columnHeaders) = <<>>) <=> headerCells = <<>>
    /\ GuidedFails <=> path # "guided"
    /\ GuidedFails => table = WithoutHeaders(glyphs, [options EXCEPT !.columnHeaders = <<>>])
    /\ ~GuidedFails =>
         /\ table = [pageIndex |-> 0,
                     bbox |-> guidedBbox(headerCells, headerBottomOf(headerCells), lastRowBottom),
                     rows |-> guidedRows(glyphs, rowsBuckets)]
         /\ rowCenters = <<>> /\ columnCenters = <<>> /\ gridRows = <<>>

\* a label part had no fragment and the automatic inference gave a table
C12_Witness ==
  /\ pc = "done"
  /\ options.columnHeaders # <<>>
  /\ PartUnmatched(glyphs, options.columnHeaders)
  /\ path = "automatic"
  /\ table # NULL

\* no label had a part and the automatic inference gave a table
C12_WitnessNoLabel ==
  /\ pc = "done"
  /\ options.columnHeaders # <<>>
  /\ LabelParts(options.columnHeaders) = <<>>
  /\ path = "automatic"

\* every part was matched, no body row was produced, a table came back
C12_WitnessNoRow ==
  /\ pc = "done"
  /\ options.columnHeaders # <<>>
  /\ headerCells # <<>>
  /\ rowsBuckets = <<>>
  /\ path = "automatic"

\* the header-guided extraction succeeded
C12_WitnessGuided ==
  /\ pc = "done"
  /\ path = "guided"

\* C13: extractTableFromGlyphs ends without an exception for every fragment
\* list and every configuration with tolerances >= 0 and non-negative
\* minColumnCount and maxColumnCount, 0 included.
C13_NoException == ~threw

\* the number of candidate centers: the bands of the fragments' x centers
CandidateCount ==
  Len(clusterPositions([i \in DOMAIN glyphs |-> CenterX(glyphs[i])], R(options.xTolerance)))

C14_WitnessUpper ==
  /\ pc = "done"
  /\ CandidateCount > options.maxColumnCount
  /\ Len(columnCenters) = options.maxColumnCount

(***************************************************************************)
(* Properties of the boxes of a table                                      *)
(***************************************************************************)
\* the fragments assigned to the cell of row r and column c of the grid the
\* table was built from, as positions in glyphs
AssignedTo(r, c) ==
  IF path = "guided" THEN {rowsBuckets[r][c].glyphs[i] : i \in DOMAIN rowsBuckets[r][c].glyphs}
  ELSE {buckets[r][c][i] : i \in DOMAIN buckets[r][c]}

\* the fragments that went into some cell
Contributing ==
  IF path = "guided"
  THEN UNION {AssignedTo(r, c) : r \in DOMAIN rowsBuckets, c \in DOMAIN columns}
  ELSE UNION {AssignedTo(r, c) : r \in DOMAIN buckets, c \in DOMAIN columnCenters}

Inside(rect, box) ==
  /\ box.x <= rect.x
  /\ rect.x + rect.width <= box.x + box.width
  /\ box.y <= rect.y
  /\ rect.y + rect.height <= box.y + box.height

\* C15: the bbox of every table produced for a page, by the automatic or by
\* the header-guided path, contains the rect of every fragment that went into
\* one of its cells.
C15_BboxCoversFragments ==
  (pc = "done" /\ table # NULL) =>
    \A g \in Contributing : Inside(glyphs[g].bbox, table.bbox)

\* the same for the tables of the automatic path alone
C15_AutomaticCovers ==
  (pc = "done" /\ path = "automatic") =>
    \A g \in DOMAIN glyphs : Inside(glyphs[g].bbox, table.bbox)

\* the smallest rect that encloses the rects of the fragments gs (not empty)
Enclosing(gs) ==
  LET left == CHOOSE v \in {glyphs[g].bbox.x : g \in gs} :
                \A g \in gs : v <= glyphs[g].bbox.x
      bottom == CHOOSE v \in {glyphs[g].bbox.y : g \in gs} :
                  \A g \in gs : v <= glyphs[g].bbox.y
      right == CHOOSE v \in {glyphs[g].bbox.x + glyphs[g].bbox.width : g \in gs} :
                 \A g \in gs : v >= glyphs[g].bbox.x + glyphs[g].bbox.width
      top == CHOOSE v \in {glyphs[g].bbox.y + glyphs[g].bbox.height : g \in gs} :
               \A g \in gs : v >= glyphs[g].bbox.y + glyphs[g].bbox.height
  IN  [x |-> left, y |-> bottom, width |-> right - left, height |-> top - bottom]

\* the cells of the automatic path, before the rows are trimmed and the
\* columns filtered, have the boxes of their fragments
GridCellsEnclose ==
  \A r \in DOMAIN gridRows : \A l \in DOMAIN colIndicesToUse :
    AssignedTo(r, colIndicesToUse[l]) # {} =>
      gridRows[r].cells[l].bbox = Enclosing(AssignedTo(r, colIndicesToUse[l]))

\* a cell of the table of the automatic path is a cell of the grid
FromGrid(cell) ==
  \E r \in DOMAIN gridRows : \E l \in DOMAIN gridRows[r].cells :
    /\ gridRows[r].cells[l].text = cell.text
    /\ gridRows[r].cells[l].bbox = cell.bbox

\* C16: in every produced table, automatic or header-guided, the bbox of a
\* cell with at least one assigned fragment is exactly the smallest rect
\* enclosing the rects of the fragments assigned to that cell.
C16_CellBboxIsUnion ==
  /\ (path # "guided" /\ gridRows # <<>>) => GridCellsEnclose
  /\ (pc = "done" /\ path = "automatic") =>
       \A r \in DOMAIN table.rows : \A c \in DOMAIN table.rows[r].cells :
         FromGrid(table.rows[r].cells[c])
  /\ (pc = "done" /\ path = "guided") =>
       \A r \in DOMAIN table.rows : \A c \in DOMAIN table.rows[r].cells :
         AssignedTo(r, c) # {} => table.rows[r].cells[c].bbox = Enclosing(AssignedTo(r, c))

\* the same for the tables of the automatic path alone
C16_AutomaticCells ==
  /\ (path # "guided" /\ gridRows # <<>>) => GridCellsEnclose
  /\ (pc = "done" /\ path = "automatic") =>
       \A r \in DOMAIN table.rows : \A c \in DOMAIN table.rows[r].cells :
         FromGrid(table.rows[r].cells[c])

(***************************************************************************)
(* Properties of the header-guided extraction                              *)
(***************************************************************************)
\* the labels that have a non-blank part, as positions in columnHeaders
LabelsWithParts == {i \in DOMAIN options.columnHeaders : headerParts(options.columnHeaders[i]) # <<>>}

\* the positions in LabelParts of the parts of label i
PartsOfLabel(i) ==
  LET before == Len(LabelParts(SubSeq(options.columnHeaders, 1, i - 1)))
  IN  (before + 1)..(before + Len(headerParts(options.columnHeaders[i])))

\* the fragment part p is matched to: the k-th part with a text takes the
\* k-th fragment, in load order, with that trimmed text
IsMatchOf(g, p) ==
  LET parts == LabelParts(options.columnHeaders)
      earlier == Cardinality({q \in 1..(p - 1) : parts[q] = parts[p]})
  IN  /\ Trim(glyphs[g].text) = parts[p]
      /\ Cardinality({h \in 1..(g - 1) : Trim(glyphs[h].text) = parts[p]}) = earlier

MatchOf(p) == CHOOSE g \in DOMAIN glyphs : IsMatchOf(g, p)

\* the anchor box of label i
Anchor(i) == Enclosing({MatchOf(p) : p \in PartsOfLabel(i)})

\* C17: the columns of a header-guided table are ordered left to right by
\* the x of the labels' anchor boxes (the union of the rects of the matched
\* fragments), whatever the order of the labels in columnHeaders; there is
\* one column per label with a non-blank part; no fragment is matched to two
\* label parts.
C17_ColumnsByAnchorX ==
  headerCells # <<>> =>
    /\ \A p \in DOMAIN LabelParts(options.columnHeaders) :
         \E g \in DOMAIN glyphs : IsMatchOf(g, p)
    /\ Len(headerCells) = Cardinality(LabelsWithParts)
    /\ Len(columns) = Len(headerCells)
    /\ \A i \in LabelsWithParts :
         \E k \in DOMAIN headerCells :
           /\ headerCells[k].bbox = Anchor(i)
           /\ headerCells[k].title = Trim(CollapseWhitespace(options.columnHeaders[i]))
           /\ columns[k].title = headerCells[k].title
    /\ \A k \in DOMAIN headerCells : \E i \in LabelsWithParts : headerCells[k].bbox = Anchor(i)
    /\ \A j, k \in DOMAIN headerCells : j < k => headerCells[j].bbox.x <= headerCells[k].bbox.x
    /\ \A p, q \in DOMAIN LabelParts(options.columnHeaders) : p # q => MatchOf(p) # MatchOf(q)
    /\ (pc = "done" /\ path = "guided") =>
         \A r \in DOMAIN table.rows : Len(table.rows[r].cells) = Cardinality(LabelsWithParts)

\* the labels are given right to left, one of them blank, and the table has
\* the columns left to right
C17_Witness ==
  /\ pc = "done"
  /\ path = "guided"
  /\ options.columnHeaders = << <<"b">>, <<" ">>, <<"a">> >>
  /\ Len(table.rows[1].cells) = 2
  /\ table.rows[1].cells[1].text = <<"a">>
  /\ table.rows[1].cells[2].text = <<"b">>

\* a repeated label takes two fragments
C17_WitnessRepeated ==
  /\ pc = "done"
  /\ path = "guided"
  /\ options.columnHeaders = << <<"a">>, <<"a">> >>
  /\ Len(headerCells) = 2
  /\ headerCells[1].bbox.x < headerCells[2].bbox.x

(***************************************************************************)
(* Properties of the merge: what it keeps                                  *)
(***************************************************************************)
\* the page table an output table started from
FirstOfRun(o) == pageResults[mergedPages[o][1] + 1]

\* an output table has the frame and the rows of the table it started from,
\* and its rows are numbered by position
FrameKept ==
  \A o \in DOMAIN merged :
    /\ merged[o].pageIndex = FirstOfRun(o).pageIndex
    /\ merged[o].bbox = FirstOfRun(o).bbox
    /\ Len(merged[o].rows) >= Len(FirstOfRun(o).rows)
    /\ \A r \in DOMAIN FirstOfRun(o).rows : merged[o].rows[r] = FirstOfRun(o).rows[r]
    /\ \A r \in DOMAIN merged[o].rows :
         /\ merged[o].rows[r].rowIndex = r - 1
         /\ \A c \in DOMAIN merged[o].rows[r].cells : merged[o].rows[r].cells[c].rowIndex = r - 1

\* an iteration that appends numbers the new rows from the previous row
\* count of the running table and leaves the rows it had alone
AppendedRenumbered ==
  (MergeStep /\ merged # <<>> /\ Len(merged') = Len(merged)) =>
    LET old == merged[Len(merged)].rows
        new == merged'[Len(merged)].rows
    IN  /\ Len(new) >= Len(old)
        /\ SubSeq(new, 1, Len(old)) = old
        /\ \A k \in 1..(Len(new) - Len(old)) : new[Len(old) + k].rowIndex = Len(old) + k - 1

\* C18: after any number of tables have been appended to a run, the merged
\* table has the pageIndex and the bbox of the run's first table, the rows
\* of the first table are at their positions with their cells unchanged, and
\* the appended rows are numbered consecutively from the previous row count
\* of the running table.
C18_MergeFrame == []FrameKept /\ [][AppendedRenumbered]_vars

\* two tables with different boxes have been appended to a first table
C18_Witness ==
  /\ pc = "merged"
  /\ mergedPages = << <<0, 1, 2>> >>
  /\ pageResults[2].bbox # pageResults[1].bbox
  /\ Len(merged[1].rows) > Len(pageResults[1].rows) + 1

(***************************************************************************)
(* Properties of the stages: the inputs are left alone                     *)
(***************************************************************************)
\* the tables of the pages before position upTo, in page order
RECURSIVE TablesBefore(_)
TablesBefore(upTo) ==
  IF upTo <= 1 THEN <<>>
  ELSE IF pageResults[upTo - 1] = NULL THEN TablesBefore(upTo - 1)
  ELSE Append(TablesBefore(upTo - 1), pageResults[upTo - 1])

\* the list handed to mergeSequentialTables holds the tables as the detector
\* returned them
MergeInputsIntact == pageTables = TablesBefore(pageIdx)

\* no step changes the fragments of the page, the table given to the mapper,
\* or a table handed to the merge
InputsKept ==
  /\ glyphs' = glyphs
  /\ mapTable' = mapTable
  /\ pageResults' = pageResults
  /\ \A i \in DOMAIN pageTables : pageTables'[i] = pageTables[i]

C19_WitnessDetector ==
  /\ pc = "done"
  /\ glyphs # <<>>
  /\ table # NULL

\* a table was mapped to objects
C19_WitnessMapper ==
  /\ pc = "mapped"
  /\ mapTable # NULL

(***************************************************************************)
(* Properties of clusterPositions                                          *)
(***************************************************************************)
\* the k-th smallest of the positions, counted with repetitions
Ascending(k) ==
  CHOOSE v \in {positions[i] : i \in DOMAIN positions} :
    /\ Cardinality({i \in DOMAIN positions : positions[i] < v}) < k
    /\ k <= Cardinality({i \in DOMAIN positions : positions[i] <= v})

\* the rank of the anchor of the band of the k-th smallest position: a
\* position within tolerance of the anchor joins, another starts a band
RECURSIVE AnchorOf(_)
AnchorOf(k) ==
  IF k = 1 THEN 1
  ELSE IF Ascending(k) - Ascending(AnchorOf(k - 1)) <= tolerance THEN AnchorOf(k - 1)
  ELSE k

Anchors == {AnchorOf(k) : k \in DOMAIN positions}

MembersOf(a) == {k \in DOMAIN positions : AnchorOf(k) = a}

RECURSIVE SumOf(_)
SumOf(ks) ==
  IF ks = {} THEN 0 ELSE LET k == CHOOSE j \in ks : TRUE IN Ascending(k) + SumOf(ks \ {k})

\* the arithmetic mean of the members of the band anchored at a
CenterOf(a) == Rat(SumOf(MembersOf(a)), Cardinality(MembersOf(a)))

\* C20: clusterPositions takes the positions in ascending order; a position
\* joins the current band iff its distance to the band's anchor, the first
\* member of the band, is <= tolerance, and starts a band otherwise; the
\* result is one center per band, the arithmetic mean of its members, in
\* ascending order, and is a function of the multiset of the positions;
\* positions pairwise farther apart than tolerance give one band each.
C20_AnchoredBands ==
  pc = "clustered" =>
    /\ Len(bands) = Cardinality(Anchors)
    /\ \A b \in DOMAIN bands :
         \E a \in Anchors :
           /\ Cardinality({c \in Anchors : c <= a}) = b
           /\ bands[b] = CenterOf(a)
    /\ \A b \in 1..(Len(bands) - 1) : RLt(bands[b], bands[b + 1])
    /\ (\A i, j \in DOMAIN positions :
          i # j => Abs(positions[i] - positions[j]) > tolerance)
         => /\ Len(bands) = Len(positions)
            /\ \A k \in DOMAIN bands : bands[k] = R(Ascending(k))

\* 3 is within the tolerance of the running mean of the band 0, 2 but not of
\* its anchor 0: two bands
C20_Witness ==
  /\ pc = "clustered"
  /\ positions = <<3, 0, 2>>
  /\ tolerance = 2
  /\ bands = <<R(1), R(3)>>

\* positions farther apart than the tolerance, not given in order
C20_WitnessSeparate ==
  /\ pc = "clustered"
  /\ positions = <<4, 0, 2>>
  /\ tolerance = 1
  /\ bands = <<R(0), R(2), R(4)>>

\* the members of the bands of a list of integer positions
MembersOfBands(p, t) == bandMembers([i \in DOMAIN p |-> R(p[i])], R(t))

\* the largest member of the band minus the smallest
SpanOf(band) ==
  LET low == CHOOSE i \in DOMAIN band : \A j \in DOMAIN band : RLe(band[i], band[j])
      high == CHOOSE i \in DOMAIN band : \A j \in DOMAIN band : RLe(band[j], band[i])
  IN  RSub(band[high], band[low])

\* C21 as stated: there are positions and a tolerance for which the largest
\* and the smallest member of one band differ by more than 2 x tolerance.
C21_SomeBandDrifts ==
  \E p \in PositionLists, t \in 0..MaxTolerance :
    \E b \in DOMAIN MembersOfBands(p, t) :
      RLt(R(2 * t), SpanOf(MembersOfBands(p, t)[b]))

\* C21, amended: under the anchor rule the anchor is the smallest member of
\* its band and every member is within tolerance of it, so the largest and
\* the smallest member of a band never differ by more than the tolerance;
\* the centers returned are the means of these bands.
C21_BandWithinTolerance ==
  pc = "clustered" =>
    /\ bands = [b \in DOMAIN MembersOfBands(positions, tolerance) |->
                  RMean(MembersOfBands(positions, tolerance)[b])]
    /\ \A b \in DOMAIN MembersOfBands(positions, tolerance) :
         RLe(SpanOf(MembersOfBands(positions, tolerance)[b]), R(tolerance))

\* a band as wide as the tolerance, its center away from the anchor
C21_Witness ==
  /\ pc = "clustered"
  /\ positions = <<2, 0, 1, 3>>
  /\ tolerance = 2
  /\ MembersOfBands(positions, tolerance) = << <<R(0), R(1), R(2)>>, <<R(3)>> >>
  /\ bands = <<R(1), R(3)>>

\* the fragment the body scan is at
Scanning == pc = "scan" /\ scanPos <= Len(bodyGlyphs)
ScanGlyph == glyphs[bodyGlyphs[scanPos]]

\* the column bands whose extent shares more than a point with the fragment's
BandsHit(g) ==
  {c \in DOMAIN columns :
     /\ columns[c].start < g.bbox.x + g.bbox.width
     /\ g.bbox.x < columns[c].end}

\* the fragments placed in a cell so far
Placed ==
  UNION {{rowsBuckets[r][c].glyphs[i] : i \in DOMAIN rowsBuckets[r][c].glyphs} :
           r \in DOMAIN rowsBuckets, c \in DOMAIN columns}

\* the fragments the scan has passed
Passed == {bodyGlyphs[i] : i \in 1..(scanPos - 1)}

\* nothing at or after the scan position is placed, and the table is made
\* of the placed fragments
PlacedWerePassed ==
  /\ pc \in {"scan", "build"} => Placed \subseteq Passed
  /\ pc = "done" /\ path = "guided" =>
       /\ Placed \subseteq Passed
       /\ table.rows = guidedRows(glyphs, rowsBuckets)

\* a fragment over more than one band ends the scan where it is
StopsOnSpan ==
  Scanning /\ Cardinality(BandsHit(ScanGlyph)) > 1 =>
    pc' = "build" /\ scanPos' = scanPos /\ rowsBuckets' = rowsBuckets /\ columns' = columns

\* a fragment over no band is passed without being placed
SkipsUnbanded ==
  Scanning /\ BandsHit(ScanGlyph) = {} =>
    pc' = "scan" /\ scanPos' = scanPos + 1 /\ rowsBuckets' = rowsBuckets /\ columns' = columns

\* after the stop the scan does not resume
StoppedStays ==
  pc = "build" =>
    /\ pc' \in {"automatic", "done"}
    /\ scanPos' = scanPos /\ rowsBuckets' = rowsBuckets

\* C22: in the header-guided body scan the first fragment that overlaps more
\* than one column band stops the scan at once: neither it nor a later
\* fragment is placed in a cell; a fragment that overlaps no band is
\* discarded and the scan goes on.
C22_SpanStopsScan ==
  []PlacedWerePassed /\ [][StopsOnSpan /\ SkipsUnbanded /\ StoppedStays]_vars

\* the scan stopped at a spanning fragment with a fragment after it, rows
\* placed before it
C22_Witness ==
  /\ pc = "done" /\ path = "guided"
  /\ glyphs = ScenarioSpanning
  /\ scanPos = 4 /\ Len(bodyGlyphs) = 5
  /\ Cardinality(BandsHit(ScanGlyph)) = 2
  /\ Placed = {1, 2, 3}
  /\ Len(table.rows) = 2

\* a fragment over no band was passed and a later one placed
C22_WitnessDiscarded ==
  /\ pc = "done" /\ path = "guided"
  /\ \E i \in 1..(scanPos - 1) :
       /\ bodyGlyphs[i] \notin Placed
       /\ \E j \in (i + 1)..(scanPos - 1) : bodyGlyphs[j] \in Placed

\* the current (last) row of the scan and the fragments placed in it
HasRow == rowsBuckets # <<>>
LastRow == rowsBuckets[Len(rowsBuckets)]
InLastRow == UNION {{LastRow[c].glyphs[i] : i \in DOMAIN LastRow[c].glyphs} : c \in DOMAIN columns}

\* the lowest bottom edge of the fragments placed in the current row
RowBottom ==
  LET lowest == CHOOSE g \in InLastRow : \A h \in InLastRow : glyphs[g].bbox.y <= glyphs[h].bbox.y
  IN  glyphs[lowest].bbox.y

\* the fragment's center is more than yTolerance below the edge at y
CenterBelow(g, y) == 2 * g.bbox.y + g.bbox.height < 2 * (y - options.yTolerance)

\* the fragment would not join the current row: see C24
WouldStartRow == HasRow /\ CenterBelow(ScanGlyph, LastRow[1].bbox.y)

\* the gap from the row's bottom down to the fragment's top edge exceeds the
\* threshold
WhitespaceExceeded ==
  /\ options.endOfTableWhitespace # INFINITY
  /\ RLt(options.endOfTableWhitespace,
         R(RowBottom - (ScanGlyph.bbox.y + ScanGlyph.bbox.height)))

\* a fragment over exactly one band ends the scan exactly when it would
\* start a row after too large a gap
StopsOnWhitespace ==
  Scanning /\ Cardinality(BandsHit(ScanGlyph)) = 1 =>
    IF WouldStartRow /\ WhitespaceExceeded
    THEN pc' = "build" /\ scanPos' = scanPos /\ rowsBuckets' = rowsBuckets
    ELSE pc' = "scan" /\ scanPos' = scanPos + 1 /\ bodyGlyphs[scanPos] \in Placed'

\* C23: when a fragment would start a new row and the gap between the lowest
\* bottom edge of the fragments of the previous row and the fragment's top
\* edge exceeds endOfTableWhitespace, the scan stops and neither it nor a
\* later fragment is placed; otherwise it is placed, and so always under the
\* default, unbounded threshold.
C23_WhitespaceTerminator ==
  []PlacedWerePassed /\ [][StopsOnWhitespace /\ StoppedStays]_vars

\* the same with the gap measured from the box of the first bucket of the row
BucketGapExceeded ==
  /\ options.endOfTableWhitespace # INFINITY
  /\ RLt(options.endOfTableWhitespace,
         R(LastRow[1].bbox.y - (ScanGlyph.bbox.y + ScanGlyph.bbox.height)))
C23_BucketGapTerminator ==
  [][Scanning /\ Cardinality(BandsHit(ScanGlyph)) = 1 =>
       IF WouldStartRow /\ BucketGapExceeded
       THEN pc' = "build" /\ scanPos' = scanPos /\ rowsBuckets' = rowsBuckets
       ELSE pc' = "scan" /\ scanPos' = scanPos + 1 /\ bodyGlyphs[scanPos] \in Placed']_vars

\* the scan was stopped by the gap although the row's lowest fragment is
\* within the threshold of the next fragment
C23_WitnessEarlyStop ==
  /\ pc = "build"
  /\ glyphs = ScenarioUneven
  /\ options.endOfTableWhitespace = R(8)
  /\ scanPos = 3
  /\ BandsHit(ScanGlyph) = {1}
  /\ RowBottom = 18 /\ ScanGlyph.bbox.y + ScanGlyph.bbox.height = 10

\* the top edge of the current row: the highest top edge of its fragments
RowTop ==
  LET highest == CHOOSE g \in InLastRow : \A h \in InLastRow :
                   glyphs[g].bbox.y + glyphs[g].bbox.height >= glyphs[h].bbox.y + glyphs[h].bbox.height
  IN  glyphs[highest].bbox.y + glyphs[highest].bbox.height

\* the fragment was placed in a row opened for it / in the row that was current
OpenedRow ==
  /\ Len(rowsBuckets') = Len(rowsBuckets) + 1
  /\ InLastRow' = {bodyGlyphs[scanPos]}
JoinedRow ==
  /\ Len(rowsBuckets') = Len(rowsBuckets)
  /\ InLastRow' = InLastRow \cup {bodyGlyphs[scanPos]}

\* a step of the scan that places its fragment
Places == Scanning /\ scanPos' = scanPos + 1 /\ bodyGlyphs[scanPos] \in Placed'

\* C24: in the header-guided body scan (y upward) a placed fragment starts a
\* new row exactly when no row exists yet or its vertical center lies more
\* than yTolerance below the current row's top edge; otherwise it is placed
\* in the current (last) row.
C24_NewRowBelowTop ==
  [][Places =>
       IF ~HasRow \/ CenterBelow(ScanGlyph, RowTop) THEN OpenedRow ELSE JoinedRow]_vars

\* the rule the loop applies: the center is compared with the bottom edge of
\* the box of the row's first bucket
C24_NewRowBelowBucket ==
  [][Places =>
       IF ~HasRow \/ CenterBelow(ScanGlyph, LastRow[1].bbox.y) THEN OpenedRow ELSE JoinedRow]_vars

\* a fragment whose center is more than yTolerance below the row's top edge
\* was placed in that row
C24_WitnessJoined ==
  /\ pc = "scan"
  /\ glyphs = ScenarioUneven
  /\ scanPos = 3
  /\ Len(rowsBuckets) = 1
  /\ InLastRow = {1, 2}
  /\ RowTop = 24
  /\ CenterBelow(glyphs[2], RowTop)

\* the lowest bottom edge of the header anchors
AnchorsBottom ==
  LET lowest == CHOOSE i \in DOMAIN headerCells :
                  \A j \in DOMAIN headerCells : headerCells[i].bbox.y <= headerCells[j].bbox.y
  IN  headerCells[lowest].bbox.y

\* the fragment has text other than whitespace
NonBlank(g) == \E i \in DOMAIN glyphs[g].text : glyphs[g].text[i] \notin Whitespace

\* the fragment lies at or below the edge at y: no part of it is above
AtOrBelow(g, y) == glyphs[g].bbox.y + glyphs[g].bbox.height <= y

\* C25: the header-guided body scan collects only non-whitespace fragments
\* at or below the lowest bottom edge of the header anchors: no fragment
\* that lies above that edge is placed in a cell of the produced table.
C25_BodyBelowHeaders ==
  pc \in {"scan", "build"} \/ (pc = "done" /\ path = "guided") =>
    /\ \A i \in DOMAIN bodyGlyphs :
         NonBlank(bodyGlyphs[i]) /\ AtOrBelow(bodyGlyphs[i], AnchorsBottom)
    /\ \A g \in Placed : AtOrBelow(g, AnchorsBottom)

\* what the filter keeps: the non-whitespace fragments whose top edge is not
\* above the highest top edge of the header anchors
C25_BodyBelowHeaderTops ==
  pc \in {"scan", "build"} \/ (pc = "done" /\ path = "guided") =>
    /\ \A g \in DOMAIN glyphs :
         (\E i \in DOMAIN bodyGlyphs : bodyGlyphs[i] = g)
           <=> NonBlank(g) /\ AtOrBelow(g, headerBottomOf(headerCells))
    /\ Placed \subseteq {bodyGlyphs[i] : i \in DOMAIN bodyGlyphs}

\* the fragments matched as header labels fill the first row of the table
C25_WitnessHeaderRow ==
  /\ pc = "done" /\ path = "guided"
  /\ glyphs = ScenarioSpanning
  /\ AnchorsBottom = 20
  /\ {1, 2} \subseteq Placed
  /\ table.rows[1].cells[1].text = <<"a">>
  /\ table.rows[1].cells[2].text = <<"b">>

\* the column the fragment is assigned to
ColumnOf(g) ==
  CHOOSE c \in DOMAIN columns : \E r \in DOMAIN rowsBuckets :
    \E i \in DOMAIN rowsBuckets[r][c].glyphs : rowsBuckets[r][c].glyphs[i] = g

\* the band spans the x extent of the rect
BandCovers(band, rect) == band.start <= rect.x /\ rect.x + rect.width <= band.end

\* every band contains its header anchor and the fragments assigned to it
BandsCover ==
  pc \in {"scan", "build"} \/ (pc = "done" /\ path = "guided") =>
    /\ Len(columns) = Len(headerCells)
    /\ \A c \in DOMAIN columns : BandCovers(columns[c], headerCells[c].bbox)
    /\ \A g \in Placed : BandCovers(columns[ColumnOf(g)], glyphs[g].bbox)

\* no band shrinks, in any step
BandsWiden ==
  pc \in {"scan", "build"} =>
    /\ Len(columns') = Len(columns)
    /\ \A c \in DOMAIN columns :
         columns'[c].start <= columns[c].start /\ columns'[c].end >= columns[c].end

\* a placed fragment overlapped exactly one band, the one it goes to, and
\* that band grows by no more than the fragment's extent
AssignedToOverlapped ==
  Places =>
    /\ \E c \in DOMAIN columns :
         /\ BandsHit(ScanGlyph) = {c}
         /\ \E r \in DOMAIN rowsBuckets' :
              \E i \in DOMAIN rowsBuckets'[r][c].glyphs :
                rowsBuckets'[r][c].glyphs[i] = bodyGlyphs[scanPos]
         /\ columns'[c].start = Min(columns[c].start, ScanGlyph.bbox.x)
         /\ columns'[c].end = Max(columns[c].end, ScanGlyph.bbox.x + ScanGlyph.bbox.width)
         /\ \A d \in DOMAIN columns : d # c => columns'[d] = columns[d]
    /\ Placed' = Placed \cup {bodyGlyphs[scanPos]}

\* C26: throughout the header-guided body scan each column band only widens
\* (its start never increases, its end never decreases); after every step
\* the band contains its header anchor's x extent and the x extent of every
\* fragment assigned to the column so far, and every assigned fragment
\* overlapped exactly one band when it was assigned.
C26_BandsOnlyWiden ==
  []BandsCover /\ [][BandsWiden /\ AssignedToOverlapped]_vars

\* a band wider than its header anchor after a fragment reaching beyond it
\* was assigned
C26_Witness ==
  /\ pc = "done" /\ path = "guided"
  /\ \E c \in DOMAIN columns :
       /\ columns[c].end > headerCells[c].bbox.x + headerCells[c].bbox.width
       /\ \E g \in Placed :
            /\ ColumnOf(g) = c
            /\ glyphs[g].bbox.x + glyphs[g].bbox.width = columns[c].end

\* the grid of the automatic path after column filtering: the trimmed text
\* of a cell, the rows with a non-blank cell, the rows left by the trimming
GridText(r, c) == Trim(gridRows[r].cells[c].text)
GridColumns == DOMAIN gridRows[1].cells
ContentRows == {r \in DOMAIN gridRows : \E c \in GridColumns : GridText(r, c) # <<>>}
FirstContentRow == CHOOSE r \in ContentRows : \A q \in ContentRows : r <= q
RemainingRows == FirstContentRow..Len(gridRows)

\* the automatic path got as far as the row trimming, with a non-blank row
Filtered == pc = "done" /\ gridRows # <<>> /\ ContentRows # {}

\* the columns that pass the header filter when the first h remaining rows
\* are the header
KeptUnderHeader(h) ==
  LET headerRows == FirstContentRow..(FirstContentRow + h - 1)
      bodyRows == (FirstContentRow + h)..Len(gridRows)
  IN  {c \in GridColumns :
         /\ \E r \in RemainingRows : GridText(r, c) # <<>>
         /\ \/ \E r \in headerRows : GridText(r, c) # <<>>
            \/ /\ c = 1
               /\ \A r \in headerRows : GridText(r, c) = <<>>
               /\ \A r \in bodyRows : GridText(r, c) # <<>>}

\* the table is made of the remaining rows over the columns K, in order;
\* there is none when K is empty
ProducedOver(K) ==
  IF K = {} THEN table = NULL
  ELSE /\ table # NULL
       /\ Len(table.rows) = Cardinality(RemainingRows)
       /\ \A r \in DOMAIN table.rows :
            /\ Len(table.rows[r].cells) = Cardinality(K)
            /\ \A n \in DOMAIN table.rows[r].cells :
                 /\ table.rows[r].cells[n].text
                      = gridRows[FirstContentRow + r - 1].cells[SortedSeq(K)[n]].text
                 /\ table.rows[r].cells[n].bbox
                      = gridRows[FirstContentRow + r - 1].cells[SortedSeq(K)[n]].bbox

\* C27: in the automatic path the header-column filter takes the first
\* remaining row as the header row: a column is in the produced table iff it
\* is not empty in every row and either its first-row cell is non-empty or
\* it is the first column, its first-row cell is empty and every cell after
\* the first row is non-empty; when no column qualifies there is no table.
C27_FirstRowIsHeader == Filtered => ProducedOver(KeptUnderHeader(1))

\* the leading remaining rows that are not likely data rows, at least one
HeaderRowCount ==
  Max(1, Cardinality({r \in RemainingRows :
                        \A q \in FirstContentRow..r : ~detectorIsLikelyDataRow(gridRows[q])}))

\* C27, amended: the header rows are the leading remaining rows that are not
\* likely data rows (at least the first); a column is kept iff it is not
\* empty in every row and either one of its header-row cells is non-empty or
\* it is the first column, its header-row cells are empty and every cell
\* after the header rows is non-empty.
C27_HeaderRowsFilter == Filtered => ProducedOver(KeptUnderHeader(HeaderRowCount))

\* a column whose label stands in the second header row is kept
C27_Witness ==
  /\ Filtered
  /\ glyphs = ScenarioStacked
  /\ HeaderRowCount = 2
  /\ KeptUnderHeader(1) = {1}
  /\ KeptUnderHeader(HeaderRowCount) = {1, 2}
  /\ table.rows[2].cells[2].text = <<"b">>

\* the first column is kept without a label, over a full body
C27_WitnessIndexColumn ==
  /\ Filtered
  /\ HeaderRowCount = 1
  /\ GridText(FirstContentRow, 1) = <<>>
  /\ 1 \in KeptUnderHeader(HeaderRowCount)
  /\ table # NULL

\* the first remaining row has a non-blank cell, so its column passes
C27_SomeColumnPasses == Filtered => KeptUnderHeader(HeaderRowCount) # {} /\ table # NULL

\* the grid of buckets: its columns, the columns populated in row r, the
\* number of rows in which column c is populated
BucketColumns == DOMAIN columnCenters
PopulatedIn(r) == {c \in BucketColumns : buckets[r][c] # <<>>}
UsageOf(c) == Cardinality({r \in DOMAIN buckets : c \in PopulatedIn(r)})

\* rule (a): at least half as many rows as the most-populated column
FrequentColumns ==
  {c \in BucketColumns : \A d \in BucketColumns : 2 * UsageOf(c) >= UsageOf(d)}

\* rule (b): the first row with the most populated cells
TemplateRow ==
  CHOOSE r \in DOMAIN buckets :
    /\ \A q \in DOMAIN buckets : Cardinality(PopulatedIn(q)) <= Cardinality(PopulatedIn(r))
    /\ \A q \in 1..(r - 1) : Cardinality(PopulatedIn(q)) < Cardinality(PopulatedIn(r))

\* the rule keeps at least one but not all columns
Reduces(K) == K # {} /\ K # BucketColumns

LogicalColumns ==
  IF Reduces(FrequentColumns) THEN FrequentColumns
  ELSE IF Reduces(PopulatedIn(TemplateRow)) THEN PopulatedIn(TemplateRow)
  ELSE BucketColumns

\* the grid was built
GridBuilt == pc \in {"filter", "done"} /\ buckets # <<>>

\* C28: grid column filtering applies the first rule that reduces the
\* column set: (a) the columns populated in at least 50% as many rows as the
\* most-populated column, (b) the columns populated in the template row, the
\* first row with the most populated cells, each only if it keeps at least
\* one but not all columns, otherwise (c) all columns; the kept columns stay
\* in left-to-right order.
C28_FirstReducingRule ==
  GridBuilt =>
    /\ colIndicesToUse = SortedSeq(LogicalColumns)
    /\ \A i, j \in DOMAIN colIndicesToUse :
         i < j => RLt(columnCenters[colIndicesToUse[i]], columnCenters[colIndicesToUse[j]])
    /\ \A r \in DOMAIN gridRows :
         /\ Len(gridRows[r].cells) = Len(colIndicesToUse)
         /\ \A n \in DOMAIN colIndicesToUse :
              gridRows[r].cells[n].text = bucketText(glyphs, buckets[r][colIndicesToUse[n]])

\* rule (a) drops a rarely used column
C28_Witness ==
  /\ GridBuilt
  /\ glyphs = ScenarioUsage
  /\ Reduces(FrequentColumns)
  /\ colIndicesToUse = <<1>>

\* rule (a) keeps all columns and rule (b) drops one
C28_WitnessTemplate ==
  /\ GridBuilt
  /\ glyphs = ScenarioTemplate
  /\ FrequentColumns = BucketColumns
  /\ TemplateRow = 2
  /\ colIndicesToUse = <<1, 2>>

\* neither rule reduces: all columns
C28_WitnessAll ==
  /\ GridBuilt
  /\ ~Reduces(FrequentColumns) /\ ~Reduces(PopulatedIn(TemplateRow))
  /\ Len(colIndicesToUse) = 2

\* the automatic path got as far as the row trimming
Trimmed == pc = "done" /\ gridRows # <<>>

\* C29: row trimming in the automatic path drops only the leading rows that
\* are entirely empty, keeps every later row in order even when it is empty,
\* and produces no table when all rows are empty; so the first row of every
\* table of the automatic path has a non-blank cell.
C29_LeadingRowsTrimmed ==
  /\ Trimmed =>
       IF ContentRows = {} THEN table = NULL
       ELSE /\ \E K \in SUBSET GridColumns : K # {} /\ ProducedOver(K)
            /\ \A r \in DOMAIN table.rows :
                 /\ table.rows[r].rowIndex = r - 1
                 /\ \A n \in DOMAIN table.rows[r].cells :
                      /\ table.rows[r].cells[n].rowIndex = r - 1
                      /\ table.rows[r].cells[n].columnIndex = n - 1
  /\ path = "automatic" =>
       /\ Trimmed /\ table # NULL
       /\ \E n \in DOMAIN table.rows[1].cells : Trim(table.rows[1].cells[n].text) # <<>>

\* an empty row after the first non-empty one was kept, in its place
C29_Witness ==
  /\ path = "automatic"
  /\ Len(table.rows) = 3
  /\ ~IsBlankRow(table.rows[1]) /\ IsBlankRow(table.rows[2]) /\ ~IsBlankRow(table.rows[3])

\* a leading empty row was dropped
C29_WitnessLeading ==
  /\ path = "automatic"
  /\ FirstContentRow = 2
  /\ Len(table.rows) = Len(gridRows) - 1

\* every row is empty: no table
C29_WitnessAllEmpty == Trimmed /\ ContentRows = {} /\ table = NULL

\* the candidate centers and the range of the column-count search
Candidates ==
  clusterPositions([i \in DOMAIN glyphs |-> CenterX(glyphs[i])], R(options.xTolerance))
MaxK == Min(options.maxColumnCount, CandidateCount)
MinK == Min(options.minColumnCount, MaxK)

\* the k-means layout for K columns
LayoutFor(k) == reclusterCenters1D(Candidates, k)

\* the column / row of the layout nearest to the fragment's center
NearestColumn(g, layout) == findNearestIndex(CenterX(glyphs[g]), layout)
NearestRow(g) == findNearestIndex(CenterY(glyphs[g]), rowCenters)

\* the mean squared distance of the fragments to their columns
Compactness(layout) ==
  RDivInt(RSum([g \in DOMAIN glyphs |->
                  RMul(RSub(CenterX(glyphs[g]), layout[NearestColumn(g, layout)]),
                       RSub(CenterX(glyphs[g]), layout[NearestColumn(g, layout)]))]),
          Len(glyphs))

\* the columns with fewer than max(2, 1% of the fragments) fragments
EmptyColumnPenalty(layout) ==
  Cardinality({c \in DOMAIN layout :
     Cardinality({g \in DOMAIN glyphs : NearestColumn(g, layout) = c})
       < Max(2, Len(glyphs) \div 100)})

\* the variance over the row bands of the number of columns used in the
\* row: the mean of the squares minus the square of the mean
ColumnsUsed(r, layout) ==
  Cardinality({c \in DOMAIN layout :
     \E g \in DOMAIN glyphs : NearestRow(g) = r /\ NearestColumn(g, layout) = c})
RowUsageVariance(layout) ==
  LET rows == Len(rowCenters)
      sum == RSum([r \in DOMAIN rowCenters |-> R(ColumnsUsed(r, layout))])
      squares == RSum([r \in DOMAIN rowCenters |->
                         R(ColumnsUsed(r, layout) * ColumnsUsed(r, layout))])
  IN  RSub(RDivInt(squares, rows), RMul(RDivInt(sum, rows), RDivInt(sum, rows)))

\* 1.0 compactness + 5.0 emptyColumnPenalty + 0.5 rowUsageVariance + 0.1 K
CostOf(layout) ==
  RAdd(RAdd(Compactness(layout), R(5 * EmptyColumnPenalty(layout))),
       RAdd(RDivInt(RowUsageVariance(layout), 2), Rat(Len(layout), 10)))

\* K has the minimum cost of the range, and is the smallest such K
Cheapest(k) ==
  /\ \A j \in MinK..MaxK : RLe(CostOf(LayoutFor(k)), CostOf(LayoutFor(j)))
  /\ \A j \in MinK..(k - 1) : RLt(CostOf(LayoutFor(k)), CostOf(LayoutFor(j)))

\* the column inference was reached: the page has row bands
ColumnsInferred == rowCenters # <<>>

\* what inferColumnsSmart is to return
MinimumCostLayout ==
  IF CandidateCount = 0 \/ MaxK <= 0 THEN columnCenters = <<>>
  ELSE IF MinK = MaxK THEN columnCenters = LayoutFor(MaxK)
  ELSE \E k \in MinK..MaxK : Cheapest(k) /\ columnCenters = LayoutFor(k)

\* C30: with C candidate centers, maxK = min(maxColumnCount, C) and minK =
\* min(minColumnCount, maxK), inferColumnsSmart returns the k-means layout
\* of minimum cost among K = minK..maxK, the smallest K on a tie; the layout
\* for K when minK = maxK; no columns without candidates.
C30_MinimumCostLayout == ColumnsInferred => ~threw /\ MinimumCostLayout

\* the same on the runs in which the search does not throw
C30_MinimumCostUnlessThrown == ColumnsInferred /\ ~threw => MinimumCostLayout

\* the search starts at K = 0 and throws: no layout is returned
C30_WitnessThrown ==
  /\ ColumnsInferred
  /\ threw
  /\ MinK = 0 /\ MaxK >= 1
  /\ columnCenters = <<>>

\* a search over several K in which a larger K is cheaper than the smallest
C30_WitnessSearch ==
  /\ ColumnsInferred /\ ~threw
  /\ MinK < MaxK
  /\ \E k \in (MinK + 1)..MaxK : Cheapest(k) /\ columnCenters = LayoutFor(k)

=============================================================================
